---- MODULE Spec2Model ----
(***************************************************************************)
(* Admissions Planner PLUS (src/app.py): the relational store (hospitals,  *)
(* wards, patients, rounds_logs, transfers, chemo_templates,               *)
(* chemo_courses), the Streamlit handlers that write it, and the dose      *)
(* computation.                                                            *)
(*                                                                         *)
(* Representation.                                                         *)
(*  - SQL NULL / Python None is None (numeric columns) or NoneS (text).    *)
(*  - weight in whole kg, height in whole cm.                              *)
(*  - BSA in 1/600000 m2 (the integer part of 10000 * sqrt(height *      *)
(*    weight), the division by 60 left to the unit); per-unit             *)
(*    coefficients, caps and template doses in 1/10 mg; the dose factor   *)
(*    in 1/100; a ledger dose_mg in 1/1000 mg (a template dose in 1/10 mg *)
(*    times a factor in 1/100).                                           *)
(*  - a date is a day count since 1970-01-01 while it is a Python date,    *)
(*    and its ISO text once isoformat() has been applied.                  *)
(*  - append-only tables with AUTOINCREMENT ids are sequences: the row id  *)
(*    is the index. hospitals and wards, which have deletes, are sets of   *)
(*    rows with the sqlite_sequence counter kept beside them.              *)
(***************************************************************************)
EXTENDS Integers, Sequences, FiniteSets, TLC

VARIABLES hospitals, wards, seq_hospitals, seq_wards, patients, rounds_logs,
          transfers, chemo_templates, chemo_courses, today, lastOp

store == <<hospitals, wards, seq_hospitals, seq_wards, patients, rounds_logs,
           transfers, chemo_templates, chemo_courses>>

vars == <<hospitals, wards, seq_hospitals, seq_wards, patients, rounds_logs,
          transfers, chemo_templates, chemo_courses, today, lastOp>>

\* ------------------------------------------------------------------ bounds

\* The first day of the run, as days since 1970-01-01 (20758 = 2026-11-01).
Day0 == 20758
\* How many days the clock may advance.
MaxDays == 1
\* Rows the patients table may hold.
MaxPatients == 2
\* Rows the chemo_courses ledger may hold.
MaxCourses == 8
\* Highest cycle number the cycle form is given.
MaxCycleNo == 2
\* Highest position of a template drug whose proposed dose the operator edits.
MaxEditIdx == 1
\* Highest id the hospitals / wards tables may hand out.
MaxHospitalId == 6
MaxWardId == 2
\* Rows the rounds_logs / transfers tables may hold.
MaxRounds == 2
MaxTransfers == 1
\* patients admitted in the settings specification
MaxSettingsPatients == 1
\* patients admitted in the dose specification
MaxDosePatients == 1
\* patients added by the form in the terminal specification
MaxTerminalPatients == 1
\* patients added by the form in the places specification
MaxPlacesPatients == 1
\* patients added in the rounds specification
MaxRoundsPatients == 2
\* patients admitted in the cycles specification
MaxCyclePatients == 1
\* ledger rows there may already be when a cycle is recorded in the cycles
\* specification: from a template, and by hand
MaxPriorRows == 4
MaxPriorRowsManual == 1

\* ------------------------------------------------------------ basic values

None == -1
NoneS == "<NULL>"

\* Python truthiness of a number-or-None (0, 0.0 and None are falsy).
Truthy(x) == x # None /\ x # 0

\* Python `x or None` on a number.
OrNone(x) == IF Truthy(x) THEN x ELSE None

\* Python `s or None` on a string.
OrNoneS(s) == IF s = "" \/ s = NoneS THEN NoneS ELSE s

\* SQL COALESCE(x, '').
Coalesce(s) == IF s = NoneS THEN "" ELSE s

\* str.strip() on the input strings the model draws (blank strings strip to "").
Strip(s) == IF s \in {"", " "} THEN "" ELSE s

Min(a, b) == IF a <= b THEN a ELSE b

Max(a, b) == IF a >= b THEN a ELSE b

Range(s) == {s[i] : i \in DOMAIN s}

IsPrefix(s, t) == Len(s) <= Len(t) /\ SubSeq(t, 1, Len(s)) = s

\* ------------------------------------------------------------------- dates

Pad2(n) == IF n < 10 THEN "0" \o ToString(n) ELSE ToString(n)

\* date.isoformat(): "YYYY-MM-DD" of a day count since 1970-01-01.
IsoFormat(days) ==
    LET z   == days + 719468
        era == z \div 146097
        doe == z - era * 146097
        yoe == (doe - doe \div 1460 + doe \div 36524 - doe \div 146096) \div 365
        doy == doe - (365 * yoe + yoe \div 4 - yoe \div 100)
        mp  == (5 * doy + 2) \div 153
        d   == doy - (153 * mp + 2) \div 5 + 1
        m   == IF mp < 10 THEN mp + 3 ELSE mp - 9
        y   == yoe + era * 400 + (IF m <= 2 THEN 1 ELSE 0)
    IN  ToString(y) \o "-" \o Pad2(m) \o "-" \o Pad2(d)

\* SQLite datetime('now','localtime'): the day's ISO date and a time of day.
NowText == IsoFormat(today) \o " 09:00:00"

\* ------------------------------------------------------- chemo templates

Item(drug, mode, per_m2, per_kg, fixed, max) ==
    [drug |-> drug, mode |-> mode, dose_per_m2 |-> per_m2,
     dose_per_kg |-> per_kg, fixed_dose_mg |-> fixed, max_mg |-> max]

PerM2(drug, k) == Item(drug, "per_m2", k, None, None, None)

PerM2Max(drug, k, max) == Item(drug, "per_m2", k, None, None, max)

PerKg(drug, k) == Item(drug, "per_kg", None, k, None, None)

Fixed(drug, mg) == Item(drug, "fixed", None, None, mg, None)

\* The built-in templates, name -> payload (coefficients in 1/10 mg).
templates ==
    { [name |-> "CHOP", payload |->
         << PerM2("Cyclophosphamide", 7500), PerM2("Doxorubicin", 500),
            PerM2Max("Vincristine", 14, 20), Fixed("Prednisolone", 1000) >>],
      [name |-> "R-CHOP", payload |->
         << PerKg("Rituximab", 3750), PerM2("Cyclophosphamide", 7500),
            PerM2("Doxorubicin", 500), PerM2Max("Vincristine", 14, 20),
            Fixed("Prednisolone", 1000) >>],
      [name |-> "ICE", payload |->
         << PerM2("Ifosfamide", 50000), PerM2("Carboplatin", 4000),
            PerM2("Etoposide", 1000) >>],
      [name |-> "BV-AVD", payload |->
         << PerKg("Brentuximab vedotin", 12), PerM2("Doxorubicin", 250),
            PerM2("Vinblastine", 60), PerM2("Dacarbazine", 3750) >>],
      [name |-> "Pola-R-CHP", payload |->
         << PerKg("Polatuzumab vedotin", 18), PerKg("Rituximab", 3750),
            PerM2("Cyclophosphamide", 7500), PerM2("Doxorubicin", 500),
            Fixed("Prednisolone", 1000) >>],
      [name |-> "DA-EPOCH-R", payload |->
         << PerM2("Etoposide", 500), PerM2("Doxorubicin", 100),
            PerM2Max("Vincristine", 4, 20), PerM2("Cyclophosphamide", 7500),
            PerKg("Rituximab", 3750) >>],
      [name |-> "HyperCVAD", payload |->
         << PerM2("Cyclophosphamide", 3000), PerM2Max("Vincristine", 14, 20),
            PerM2("Doxorubicin", 500), Fixed("Dexamethasone", 400) >>],
      [name |-> "Daratumumab IV", payload |-> << PerKg("Daratumumab", 160) >>],
      [name |-> "Daratumumab SC", payload |->
         << Fixed("Daratumumab (SC)", 18000) >>] }

\* INSERT OR IGNORE of every built-in template into table t (name UNIQUE).
seed_chemo_templates(t) ==
    t \cup {x \in templates : \A y \in t : y.name # x.name}

\* ------------------------------------------------------- dose computation

\* m * m <= n * 10^8, computed without leaving the 32-bit range
\* (m = a * 10^4 + b, so m * m = a*a * 10^8 + u * 10^4 + v).
SqLeq(m, n) ==
    LET a == m \div 10000
        b == m % 10000
        u == 2 * a * b + (b * b) \div 10000
        v == (b * b) % 10000
    IN  \/ a * a * 10000 + u < n * 10000
        \/ a * a * 10000 + u = n * 10000 /\ v = 0

\* floor(10^4 * sqrt(n)) by bisection on lo..hi.
RECURSIVE Isqrt(_, _, _)
Isqrt(n, lo, hi) ==
    IF lo >= hi THEN lo
    ELSE LET mid == (lo + hi + 1) \div 2
         IN  IF SqLeq(mid, n) THEN Isqrt(n, mid, hi) ELSE Isqrt(n, lo, mid - 1)

\* calc_bsa dividing by 3131, the constant of the pound/inch formula.
calc_bsa_3131(weight_kg, height_cm) ==
    IF ~Truthy(weight_kg) \/ ~Truthy(height_cm) THEN None
    ELSE Isqrt((height_cm * weight_kg * 3600) \div 3131, 0, 4630000)

\* ((height_cm * weight_kg) / 3600.0) ** 0.5 in 1/600000 m2, None when either
\* argument is falsy (height_cm * weight_kg within 463 * 463).
calc_bsa(weight_kg, height_cm) ==
    IF ~Truthy(weight_kg) \/ ~Truthy(height_cm) THEN None
    ELSE Isqrt(height_cm * weight_kg, 0, 4630000)

\* round(x, 1) of whole + rest/600000 of 1/10 mg: ties to even.
Round1(whole, rest) ==
    IF 2 * rest > 600000 \/ (2 * rest = 600000 /\ whole % 2 = 1)
    THEN whole + 1 ELSE whole

\* The product coefficient * bsa in 1/10 mg as <<whole, rest>>: whole 1/10 mg
\* plus rest/600000 of 1/10 mg (the product is split so as to stay in range).
PerM2Dose(coeff, bsa) ==
    LET a    == coeff * (bsa \div 1000)
        rest == (a % 600) * 1000 + coeff * (bsa % 1000)
    IN  << a \div 600 + rest \div 600000, rest % 600000 >>

\* table lookup by name: the payload, or None (as <<>>) when no row matches.
get_chemo_template_by_name(name) ==
    IF \E t \in chemo_templates : t.name = name
    THEN (CHOOSE t \in chemo_templates : t.name = name).payload
    ELSE << >>

\* template_dose_mg without the cap.
template_dose_mg_no_cap(item, weight_kg, bsa) ==
    LET dose ==
          IF item.mode = "per_m2" /\ Truthy(bsa)
          THEN (IF item.dose_per_m2 # None THEN PerM2Dose(item.dose_per_m2, bsa)
                ELSE << >>)
          ELSE IF item.mode = "per_kg" /\ Truthy(weight_kg)
          THEN (IF item.dose_per_kg # None
                THEN << item.dose_per_kg * weight_kg, 0 >> ELSE << >>)
          ELSE IF item.mode = "fixed" /\ item.fixed_dose_mg # None
          THEN << item.fixed_dose_mg, 0 >>
          ELSE << >>
        capped == IF FALSE /\ dose # << >>
                     /\ (dose[1] > item.max_mg \/ (dose[1] = item.max_mg /\ dose[2] > 0))
                  THEN << item.max_mg, 0 >> ELSE dose
    IN  IF capped = << >> THEN None ELSE Round1(capped[1], capped[2])

\* template_dose_mg with the per-kg rule asking for a BSA as well.
template_dose_mg_kg_needs_bsa(item, weight_kg, bsa) ==
    LET dose ==
          IF item.mode = "per_m2" /\ Truthy(bsa)
          THEN (IF item.dose_per_m2 # None THEN PerM2Dose(item.dose_per_m2, bsa)
                ELSE << >>)
          ELSE IF item.mode = "per_kg" /\ Truthy(weight_kg) /\ Truthy(bsa)
          THEN (IF item.dose_per_kg # None
                THEN << item.dose_per_kg * weight_kg, 0 >> ELSE << >>)
          ELSE IF item.mode = "fixed" /\ item.fixed_dose_mg # None
          THEN << item.fixed_dose_mg, 0 >>
          ELSE << >>
        capped == IF item.max_mg # None /\ dose # << >>
                     /\ (dose[1] > item.max_mg \/ (dose[1] = item.max_mg /\ dose[2] > 0))
                  THEN << item.max_mg, 0 >> ELSE dose
    IN  IF capped = << >> THEN None ELSE Round1(capped[1], capped[2])

\* template_dose_mg with the fixed rule asking for a weight.
template_dose_mg_fixed_needs_weight(item, weight_kg, bsa) ==
    LET dose ==
          IF item.mode = "per_m2" /\ Truthy(bsa)
          THEN (IF item.dose_per_m2 # None THEN PerM2Dose(item.dose_per_m2, bsa)
                ELSE << >>)
          ELSE IF item.mode = "per_kg" /\ Truthy(weight_kg)
          THEN (IF item.dose_per_kg # None
                THEN << item.dose_per_kg * weight_kg, 0 >> ELSE << >>)
          ELSE IF item.mode = "fixed" /\ item.fixed_dose_mg # None /\ Truthy(weight_kg)
          THEN << item.fixed_dose_mg, 0 >>
          ELSE << >>
        capped == IF item.max_mg # None /\ dose # << >>
                     /\ (dose[1] > item.max_mg \/ (dose[1] = item.max_mg /\ dose[2] > 0))
                  THEN << item.max_mg, 0 >> ELSE dose
    IN  IF capped = << >> THEN None ELSE Round1(capped[1], capped[2])

\* One template rule's dose in 1/10 mg, or None. The unrounded dose is
\* <<whole, rest>> (rest/600000 of 1/10 mg, zero but for a per-m2 rule); the
\* cap applies before the rounding.
template_dose_mg(item, weight_kg, bsa) ==
    LET dose ==
          IF item.mode = "per_m2" /\ Truthy(bsa)
          THEN (IF item.dose_per_m2 # None THEN PerM2Dose(item.dose_per_m2, bsa)
                ELSE << >>)
          ELSE IF item.mode = "per_kg" /\ Truthy(weight_kg)
          THEN (IF item.dose_per_kg # None
                THEN << item.dose_per_kg * weight_kg, 0 >> ELSE << >>)
          ELSE IF item.mode = "fixed" /\ item.fixed_dose_mg # None
          THEN << item.fixed_dose_mg, 0 >>
          ELSE << >>
        capped == IF item.max_mg # None /\ dose # << >>
                     /\ (dose[1] > item.max_mg \/ (dose[1] = item.max_mg /\ dose[2] > 0))
                  THEN << item.max_mg, 0 >> ELSE dose
    IN  IF capped = << >> THEN None ELSE Round1(capped[1], capped[2])

\* The loop of compute_doses_for_template over the payload tpl: one row per
\* template rule, in template order.
template_rows(tpl, weight_kg, height_cm) ==
    LET bsa == calc_bsa(weight_kg, height_cm)
    IN  [i \in 1..Len(tpl) |->
            [drug_name        |-> tpl[i].drug,
             mode             |-> tpl[i].mode,
             dose_per_m2      |-> tpl[i].dose_per_m2,
             dose_per_kg      |-> tpl[i].dose_per_kg,
             fixed_dose_mg    |-> tpl[i].fixed_dose_mg,
             template_dose_mg |-> template_dose_mg(tpl[i], weight_kg, bsa)]]

\* The rows compute_doses_for_template returns: the payload is read from the
\* chemo_templates table by name.
compute_doses_for_template(template_name, weight_kg, height_cm) ==
    template_rows(get_chemo_template_by_name(template_name), weight_kg, height_cm)

\* ------------------------------------------------------------ the store

STATUSES == <<"Planned", "Admitted", "Discharged", "Cancelled">>

\* init_db on an empty file: three hospitals and the built-in templates.
SeedHospitals ==
    { [id |-> 1, name |-> "Hospital 1"], [id |-> 2, name |-> "Hospital 2"],
      [id |-> 3, name |-> "Hospital 3"] }

Init ==
    /\ hospitals = SeedHospitals
    /\ seq_hospitals = 3
    /\ wards = {}
    /\ seq_wards = 0
    /\ patients = << >>
    /\ rounds_logs = << >>
    /\ transfers = << >>
    /\ chemo_templates = seed_chemo_templates({})
    /\ chemo_courses = << >>
    /\ today = Day0
    /\ lastOp = [op |-> "init", msg |-> "none"]

\* get_hospitals(): the name -> id map the forms build.
HospitalNames == {h.name : h \in hospitals}

hosp_ids(name) == (CHOOSE h \in hospitals : h.name = name).id

\* get_wards(hospital_id): the wards of one hospital.
get_wards(hospital_id) == {w \in wards : w.hospital_id = hospital_id}

WardNames(hospital_id) == {w.name : w \in get_wards(hospital_id)}

\* dict(zip(names, ids)).get(ward): the ward's id, None for "" or no match.
ward_id_of(hospital_id, ward) ==
    IF \E w \in get_wards(hospital_id) : w.name = ward
    THEN (CHOOSE w \in get_wards(hospital_id) : w.name = ward).id
    ELSE None

\* LEFT JOIN hospitals / wards: the name, NULL when no row matches.
HospitalNameOf(id) ==
    IF \E h \in hospitals : h.id = id
    THEN (CHOOSE h \in hospitals : h.id = id).name ELSE NoneS

WardNameOf(id) ==
    IF \E w \in wards : w.id = id
    THEN (CHOOSE w \in wards : w.id = id).name ELSE NoneS

PatientIds == DOMAIN patients

\* ------------------------------------------------------------ add patient

\* The demographic fields of the add-patient form, drawn together.
Profiles ==
    { [mrn |-> "HN001", age |-> 54, sex |-> "F", diagnosis |-> "DLBCL",
       responsible_md |-> "Dr A", priority |-> "High", precautions |-> "Contact"],
      [mrn |-> "", age |-> 0, sex |-> "", diagnosis |-> "",
       responsible_md |-> "", priority |-> "Medium", precautions |-> "None"] }

\* The row the add-patient form inserts (the body and chemo columns stay NULL).
NewPatientRow(patient_name, prof, hosp, ward, status, planned_date, admit_date, bed, notes) ==
    [patient_name       |-> Strip(patient_name),
     mrn                |-> OrNoneS(Strip(prof.mrn)),
     age                |-> OrNone(prof.age),
     sex                |-> OrNoneS(prof.sex),
     hospital_id        |-> hosp_ids(hosp),
     ward_id            |-> ward_id_of(hosp_ids(hosp), ward),
     status             |-> status,
     planned_admit_date |-> IsoFormat(planned_date),
     admit_date         |-> IsoFormat(admit_date),
     bed                |-> OrNoneS(bed),
     diagnosis          |-> OrNoneS(prof.diagnosis),
     responsible_md     |-> OrNoneS(prof.responsible_md),
     priority           |-> prof.priority,
     precautions        |-> prof.precautions,
     notes              |-> OrNoneS(notes),
     last_rounded_at    |-> NoneS,
     weight_kg          |-> None,
     height_cm          |-> None,
     bsa                |-> None,
     chemo_regimen      |-> NoneS,
     chemo_total_cycles |-> None,
     chemo_interval_days |-> None]

\* AddPatient testing the name as typed, without the strip.
AddPatient_unstripped(patient_name, prof, hosp, ward, status, planned_date, admit_date, bed, notes) ==
    /\ Len(patients) < MaxPatients
    /\ hosp \in {""} \cup HospitalNames
    /\ ward \in {""} \cup (IF hosp = "" THEN {} ELSE WardNames(hosp_ids(hosp)))
    /\ IF patient_name = "" \/ hosp = ""
       THEN /\ lastOp' = [op |-> "add_patient", msg |-> "error",
                          patient_name |-> patient_name, hosp |-> hosp]
            /\ UNCHANGED <<store, today>>
       ELSE /\ patients' = Append(patients,
                  NewPatientRow(patient_name, prof, hosp, ward, status,
                                planned_date, admit_date, bed, notes))
            /\ lastOp' = [op |-> "add_patient", msg |-> "success",
                          patient_name |-> patient_name, hosp |-> hosp]
            /\ UNCHANGED <<hospitals, wards, seq_hospitals, seq_wards,
                           rounds_logs, transfers, chemo_templates,
                           chemo_courses, today>>

\* TabAdd, form add_patient_form: submit.
AddPatient(patient_name, prof, hosp, ward, status, planned_date, admit_date, bed, notes) ==
    /\ Len(patients) < MaxPatients
    /\ hosp \in {""} \cup HospitalNames
    /\ ward \in {""} \cup (IF hosp = "" THEN {} ELSE WardNames(hosp_ids(hosp)))
    /\ IF Strip(patient_name) = "" \/ hosp = ""
       THEN /\ lastOp' = [op |-> "add_patient", msg |-> "error",
                          patient_name |-> patient_name, hosp |-> hosp]
            /\ UNCHANGED <<store, today>>
       ELSE /\ patients' = Append(patients,
                  NewPatientRow(patient_name, prof, hosp, ward, status,
                                planned_date, admit_date, bed, notes))
            /\ lastOp' = [op |-> "add_patient", msg |-> "success",
                          patient_name |-> patient_name, hosp |-> hosp]
            /\ UNCHANGED <<hospitals, wards, seq_hospitals, seq_wards,
                           rounds_logs, transfers, chemo_templates,
                           chemo_courses, today>>

\* ------------------------------------------------- patient detail: selection

\* The selectbox label of a patient in TabPatient.
PatientLabel(id) ==
    << patients[id].patient_name, Coalesce(patients[id].mrn),
       HospitalNameOf(patients[id].hospital_id),
       Coalesce(WardNameOf(patients[id].ward_id)), Coalesce(patients[id].bed) >>

\* The query `mini` without its WHERE clause: every patient row.
mini_any_status == PatientIds

\* The rows of the query `mini`: status Planned or Admitted.
mini == {id \in PatientIds : patients[id].status \in {"Planned", "Admitted"}}

\* label_map is filled in the order of `mini` (id DESC), so of the patients
\* that share a label the one with the lowest id is the one a label selects.
Selectable(pid) ==
    /\ pid \in mini
    /\ \A q \in mini : PatientLabel(q) = PatientLabel(pid) => pid <= q

\* ------------------------------------------------ settings: hospitals, wards

\* init_db at the start of a script run: seeds three hospitals into an empty
\* hospitals table (AUTOINCREMENT ids continue after the highest ever used).
SeededHospitals(hs, seq) ==
    IF hs = {}
    THEN { [id |-> seq + 1, name |-> "Hospital 1"],
           [id |-> seq + 2, name |-> "Hospital 2"],
           [id |-> seq + 3, name |-> "Hospital 3"] }
    ELSE hs

\* AddHospital inserting the row whether or not the name is present.
AddHospital_unchecked(new_hosp) ==
    IF Strip(new_hosp) = ""
    THEN /\ lastOp' = [op |-> "add_hospital", msg |-> "none", new_hosp |-> new_hosp]
         /\ UNCHANGED <<store, today>>
    ELSE /\ seq_hospitals < MaxHospitalId
         /\ hospitals' = hospitals \cup
                {[id |-> seq_hospitals + 1, name |-> Strip(new_hosp)]}
         /\ seq_hospitals' = seq_hospitals + 1
         /\ lastOp' = [op |-> "add_hospital", msg |-> "success", new_hosp |-> new_hosp]
         /\ UNCHANGED <<wards, seq_wards, patients, rounds_logs, transfers,
                        chemo_templates, chemo_courses, today>>

\* TabSettings, form add_hospital_form: submit. A blank name does nothing; a
\* name already present raises IntegrityError and only warns.
AddHospital(new_hosp) ==
    IF Strip(new_hosp) = ""
    THEN /\ lastOp' = [op |-> "add_hospital", msg |-> "none", new_hosp |-> new_hosp]
         /\ UNCHANGED <<store, today>>
    ELSE IF Strip(new_hosp) \in HospitalNames
    THEN /\ lastOp' = [op |-> "add_hospital", msg |-> "warning", new_hosp |-> new_hosp]
         /\ UNCHANGED <<store, today>>
    ELSE /\ seq_hospitals < MaxHospitalId
         /\ hospitals' = hospitals \cup
                {[id |-> seq_hospitals + 1, name |-> Strip(new_hosp)]}
         /\ seq_hospitals' = seq_hospitals + 1
         /\ lastOp' = [op |-> "add_hospital", msg |-> "success", new_hosp |-> new_hosp]
         /\ UNCHANGED <<wards, seq_wards, patients, rounds_logs, transfers,
                        chemo_templates, chemo_courses, today>>

\* DeleteHospital counting only the Planned and Admitted rows as references.
DeleteHospital_active_only(id) ==
    LET cnt  == Cardinality({p \in mini : patients[p].hospital_id = id})
        left == {h \in hospitals : h.id # id}
    IN  /\ \E h \in hospitals : h.id = id
        /\ IF cnt > 0
           THEN /\ lastOp' = [op |-> "delete_hospital", msg |-> "error", id |-> id]
                /\ UNCHANGED <<store, today>>
           ELSE /\ left = {} => seq_hospitals + 3 <= MaxHospitalId
                /\ wards' = {w \in wards : w.hospital_id # id}
                /\ hospitals' = SeededHospitals(left, seq_hospitals)
                /\ seq_hospitals' = IF left = {} THEN seq_hospitals + 3
                                    ELSE seq_hospitals
                /\ lastOp' = [op |-> "delete_hospital", msg |-> "success", id |-> id,
                              cascaded |-> Cardinality(get_wards(id))]
                /\ UNCHANGED <<seq_wards, patients, rounds_logs, transfers,
                               chemo_templates, chemo_courses, today>>

\* DeleteHospital without the DELETE FROM wards.
DeleteHospital_no_cascade(id) ==
    LET cnt  == Cardinality({p \in PatientIds : patients[p].hospital_id = id})
        left == {h \in hospitals : h.id # id}
    IN  /\ \E h \in hospitals : h.id = id
        /\ IF cnt > 0
           THEN /\ lastOp' = [op |-> "delete_hospital", msg |-> "error", id |-> id]
                /\ UNCHANGED <<store, today>>
           ELSE /\ left = {} => seq_hospitals + 3 <= MaxHospitalId
                /\ wards' = wards
                /\ hospitals' = SeededHospitals(left, seq_hospitals)
                /\ seq_hospitals' = IF left = {} THEN seq_hospitals + 3
                                    ELSE seq_hospitals
                /\ lastOp' = [op |-> "delete_hospital", msg |-> "success", id |-> id,
                              cascaded |-> Cardinality(get_wards(id))]
                /\ UNCHANGED <<seq_wards, patients, rounds_logs, transfers,
                               chemo_templates, chemo_courses, today>>

\* TabSettings, button "delete" of hospital id: refused while a patient row
\* has this hospital_id; otherwise the hospital's wards and the hospital are
\* deleted, and the rerun's init_db seeds the table again if it is now empty.
DeleteHospital(id) ==
    LET cnt  == Cardinality({p \in PatientIds : patients[p].hospital_id = id})
        left == {h \in hospitals : h.id # id}
    IN  /\ \E h \in hospitals : h.id = id
        /\ IF cnt > 0
           THEN /\ lastOp' = [op |-> "delete_hospital", msg |-> "error", id |-> id]
                /\ UNCHANGED <<store, today>>
           ELSE /\ left = {} => seq_hospitals + 3 <= MaxHospitalId
                /\ wards' = {w \in wards : w.hospital_id # id}
                /\ hospitals' = SeededHospitals(left, seq_hospitals)
                /\ seq_hospitals' = IF left = {} THEN seq_hospitals + 3
                                    ELSE seq_hospitals
                /\ lastOp' = [op |-> "delete_hospital", msg |-> "success", id |-> id,
                              cascaded |-> Cardinality(get_wards(id))]
                /\ UNCHANGED <<seq_wards, patients, rounds_logs, transfers,
                               chemo_templates, chemo_courses, today>>

\* TabSettings, form add_ward_form: submit.
AddWard(hosp_choice, ward_name) ==
    /\ hosp_choice \in {""} \cup HospitalNames
    /\ IF hosp_choice = "" \/ Strip(ward_name) = ""
       THEN /\ lastOp' = [op |-> "add_ward", msg |-> "error",
                          hosp_choice |-> hosp_choice, ward_name |-> ward_name]
            /\ UNCHANGED <<store, today>>
       ELSE IF Strip(ward_name) \in WardNames(hosp_ids(hosp_choice))
       THEN /\ lastOp' = [op |-> "add_ward", msg |-> "warning",
                          hosp_choice |-> hosp_choice, ward_name |-> ward_name]
            /\ UNCHANGED <<store, today>>
       ELSE /\ seq_wards < MaxWardId
            /\ wards' = wards \cup
                 {[id |-> seq_wards + 1, hospital_id |-> hosp_ids(hosp_choice),
                   name |-> Strip(ward_name)]}
            /\ seq_wards' = seq_wards + 1
            /\ lastOp' = [op |-> "add_ward", msg |-> "success",
                          hosp_choice |-> hosp_choice, ward_name |-> ward_name]
            /\ UNCHANGED <<hospitals, seq_hospitals, patients, rounds_logs,
                           transfers, chemo_templates, chemo_courses, today>>

\* DeleteWard without the count of the patient rows that have this ward_id.
DeleteWard_unchecked(id) ==
    /\ \E w \in wards : w.id = id
    /\ wards' = {w \in wards : w.id # id}
    /\ lastOp' = [op |-> "delete_ward", msg |-> "success", id |-> id]
    /\ UNCHANGED <<hospitals, seq_hospitals, seq_wards, patients,
                   rounds_logs, transfers, chemo_templates,
                   chemo_courses, today>>

\* TabSettings, button "delete" of ward id: refused while a patient row has
\* this ward_id.
DeleteWard(id) ==
    LET cnt == Cardinality({p \in PatientIds : patients[p].ward_id = id})
    IN  /\ \E w \in wards : w.id = id
        /\ IF cnt > 0
           THEN /\ lastOp' = [op |-> "delete_ward", msg |-> "error", id |-> id]
                /\ UNCHANGED <<store, today>>
           ELSE /\ wards' = {w \in wards : w.id # id}
                /\ lastOp' = [op |-> "delete_ward", msg |-> "success", id |-> id]
                /\ UNCHANGED <<hospitals, seq_hospitals, seq_wards, patients,
                               rounds_logs, transfers, chemo_templates,
                               chemo_courses, today>>

\* -------------------------------------------------- settings: missed rounds

\* is_missed comparing the stored text itself, time of day included, with
\* today's date.
is_missed_whole_text(last_rounded_at) ==
    ~(/\ last_rounded_at # NoneS
      /\ last_rounded_at = IsoFormat(today))

\* is_missed of one row of miss_df: last_rounded_at is NULL, or does not parse
\* as an ISO datetime, or parses to a date other than date.today().
is_missed(last_rounded_at) ==
    ~(/\ last_rounded_at # NoneS
      /\ Len(last_rounded_at) >= 10
      /\ SubSeq(last_rounded_at, 1, 10) = IsoFormat(today))

\* The rows behind the list `missed`: the Admitted rows that are missed.
missed ==
    {p \in PatientIds : /\ patients[p].status = "Admitted"
                        /\ is_missed(patients[p].last_rounded_at)}

\* ------------------------------------------------------------- planner

\* The rows of planned_list: Planned patients whose hospital exists (JOIN).
planned_list ==
    {id \in PatientIds : /\ patients[id].status = "Planned"
                         /\ \E h \in hospitals : h.id = patients[id].hospital_id}

\* TabPlanner, button "change status to Admitted". Of the Planned rows that
\* share one selectbox label the query's row order, which SQL leaves open for
\* equal planned dates, decides which one the label selects: any of them.
Promote(admit_pid, new_hosp_name, ward_name, bed_new, admit_real_date) ==
    /\ admit_pid \in planned_list
    /\ new_hosp_name \in HospitalNames
    /\ ward_name \in {""} \cup WardNames(hosp_ids(new_hosp_name))
    /\ patients' = [patients EXCEPT
          ![admit_pid].status = "Admitted",
          ![admit_pid].admit_date = IsoFormat(admit_real_date),
          ![admit_pid].hospital_id = hosp_ids(new_hosp_name),
          ![admit_pid].ward_id = IF ward_name # ""
                                 THEN ward_id_of(hosp_ids(new_hosp_name), ward_name)
                                 ELSE None,
          ![admit_pid].bed = OrNoneS(bed_new)]
    /\ lastOp' = [op |-> "promote", msg |-> "success", pid |-> admit_pid]
    /\ UNCHANGED <<hospitals, wards, seq_hospitals, seq_wards, rounds_logs,
                   transfers, chemo_templates, chemo_courses, today>>

\* ------------------------------------------- patient detail: bed, rounds

\* TabPatient, button "save new bed".
SaveBed(pid, new_bed) ==
    /\ Selectable(pid)
    /\ patients' = [patients EXCEPT ![pid].bed = OrNoneS(new_bed)]
    /\ lastOp' = [op |-> "save_bed", msg |-> "success", pid |-> pid]
    /\ UNCHANGED <<hospitals, wards, seq_hospitals, seq_wards, rounds_logs,
                   transfers, chemo_templates, chemo_courses, today>>

\* AddRoundsNote without the UPDATE of last_rounded_at.
AddRoundsNote_no_stamp(pid, author, note) ==
    /\ Selectable(pid)
    /\ IF Strip(note) = ""
       THEN /\ lastOp' = [op |-> "rounds_note", msg |-> "error", pid |-> pid,
                          author |-> author, note |-> note]
            /\ UNCHANGED <<store, today>>
       ELSE /\ Len(rounds_logs) < MaxRounds
            /\ rounds_logs' = Append(rounds_logs,
                  [patient_id |-> pid, created_at |-> NowText,
                   author |-> OrNoneS(author), note |-> Strip(note)])
            /\ lastOp' = [op |-> "rounds_note", msg |-> "success", pid |-> pid,
                          author |-> author, note |-> note]
            /\ UNCHANGED <<hospitals, wards, seq_hospitals, seq_wards, patients,
                           transfers, chemo_templates, chemo_courses, today>>

\* T_Round, form form_rounds_note: submit.
AddRoundsNote(pid, author, note) ==
    /\ Selectable(pid)
    /\ IF Strip(note) = ""
       THEN /\ lastOp' = [op |-> "rounds_note", msg |-> "error", pid |-> pid,
                          author |-> author, note |-> note]
            /\ UNCHANGED <<store, today>>
       ELSE /\ Len(rounds_logs) < MaxRounds
            /\ rounds_logs' = Append(rounds_logs,
                  [patient_id |-> pid, created_at |-> NowText,
                   author |-> OrNoneS(author), note |-> Strip(note)])
            /\ patients' = [patients EXCEPT ![pid].last_rounded_at = NowText]
            /\ lastOp' = [op |-> "rounds_note", msg |-> "success", pid |-> pid,
                          author |-> author, note |-> note]
            /\ UNCHANGED <<hospitals, wards, seq_hospitals, seq_wards,
                           transfers, chemo_templates, chemo_courses, today>>

\* T_Round, form edit_round: submit, on a log row of the selected patient.
EditRound(pid, edit_id, new_author, new_note) ==
    /\ Selectable(pid)
    /\ edit_id \in DOMAIN rounds_logs
    /\ rounds_logs[edit_id].patient_id = pid
    /\ rounds_logs' = [rounds_logs EXCEPT
                         ![edit_id].author = OrNoneS(new_author),
                         ![edit_id].note = OrNoneS(new_note)]
    /\ lastOp' = [op |-> "edit_round", msg |-> "success", pid |-> pid]
    /\ UNCHANGED <<hospitals, wards, seq_hospitals, seq_wards, patients,
                   transfers, chemo_templates, chemo_courses, today>>

\* ------------------------------------------------ patient detail: transfer

\* Transfer reading the from-location after the move.
Transfer_from_after(pid, new_hosp, new_ward, reason) ==
    LET to_hid == hosp_ids(new_hosp)
        to_wid == IF new_ward # "" THEN ward_id_of(to_hid, new_ward) ELSE None
    IN  /\ Selectable(pid)
        /\ new_hosp \in HospitalNames
        /\ new_ward \in {""} \cup WardNames(to_hid)
        /\ Len(transfers) < MaxTransfers
        /\ transfers' = Append(transfers,
              [patient_id |-> pid,
               from_hospital_id |-> to_hid,
               from_ward_id |-> to_wid,
               to_hospital_id |-> to_hid, to_ward_id |-> to_wid,
               moved_at |-> NowText, reason |-> OrNoneS(reason)])
        /\ patients' = [patients EXCEPT ![pid].hospital_id = to_hid,
                                        ![pid].ward_id = to_wid]
        /\ lastOp' = [op |-> "transfer", msg |-> "success", pid |-> pid,
                      new_hosp |-> new_hosp, new_ward |-> new_ward,
                      reason |-> reason]
        /\ UNCHANGED <<hospitals, wards, seq_hospitals, seq_wards, rounds_logs,
                       chemo_templates, chemo_courses, today>>

\* T_Transfer, button "move now".
Transfer(pid, new_hosp, new_ward, reason) ==
    LET to_hid == hosp_ids(new_hosp)
        to_wid == IF new_ward # "" THEN ward_id_of(to_hid, new_ward) ELSE None
    IN  /\ Selectable(pid)
        /\ new_hosp \in HospitalNames
        /\ new_ward \in {""} \cup WardNames(to_hid)
        /\ Len(transfers) < MaxTransfers
        /\ transfers' = Append(transfers,
              [patient_id |-> pid,
               from_hospital_id |-> patients[pid].hospital_id,
               from_ward_id |-> patients[pid].ward_id,
               to_hospital_id |-> to_hid, to_ward_id |-> to_wid,
               moved_at |-> NowText, reason |-> OrNoneS(reason)])
        /\ patients' = [patients EXCEPT ![pid].hospital_id = to_hid,
                                        ![pid].ward_id = to_wid]
        /\ lastOp' = [op |-> "transfer", msg |-> "success", pid |-> pid,
                      new_hosp |-> new_hosp, new_ward |-> new_ward,
                      reason |-> reason]
        /\ UNCHANGED <<hospitals, wards, seq_hospitals, seq_wards, rounds_logs,
                       chemo_templates, chemo_courses, today>>

\* T_Transfer, form edit_transfer: submit, on a transfer of the selected patient.
EditTransfer(pid, t_edit_id, new_reason) ==
    /\ Selectable(pid)
    /\ t_edit_id \in DOMAIN transfers
    /\ transfers[t_edit_id].patient_id = pid
    /\ transfers' = [transfers EXCEPT ![t_edit_id].reason = OrNoneS(new_reason)]
    /\ lastOp' = [op |-> "edit_transfer", msg |-> "success", pid |-> pid]
    /\ UNCHANGED <<hospitals, wards, seq_hospitals, seq_wards, patients,
                   rounds_logs, chemo_templates, chemo_courses, today>>

\* ------------------------------------------ patient detail: the cycle input

\* get_chemo_courses(pid)["Cycle"].max() + 1, or 1 for an empty history.
next_cycle(pid) ==
    LET cycles == {chemo_courses[i].cycle_no : i \in
                     {j \in DOMAIN chemo_courses : chemo_courses[j].patient_id = pid}}
    IN  IF cycles = {} THEN 1
        ELSE (CHOOSE c \in cycles : \A d \in cycles : d <= c) + 1

\* The largest number the "Cycle no." input takes (max_value=999).
max_cycle_no == 999

\* The "Cycle no." input is built with value=next_cycle: above max_value the
\* call raises, the run of the script ends there, and what follows the input
\* in T_Chemo and the whole of T_Discharge is not drawn for this patient.
cycle_input_shown(pid) == next_cycle(pid) <= max_cycle_no

\* ----------------------------------------------- patient detail: discharge

\* next_admit_date with the weeks entered added as days.
next_admit_date_days(dc_date, mode, picked_date, weeks_from_now) ==
    IF mode = "direct" THEN picked_date ELSE dc_date + weeks_from_now

\* next_admit_date of the readmit plan: the date picked, or dc_date plus the
\* weeks entered.
next_admit_date(dc_date, mode, picked_date, weeks_from_now) ==
    IF mode = "direct" THEN picked_date ELSE dc_date + 7 * weeks_from_now

\* The discharge UPDATE without COALESCE: NULL notes stay NULL.
Discharged_no_coalesce(row, extra_note) ==
    [row EXCEPT !.status = "Discharged",
                !.notes = IF row.notes = NoneS THEN NoneS
                          ELSE row.notes \o extra_note]

\* The UPDATE both discharge buttons run on the selected row.
Discharged(row, extra_note) ==
    [row EXCEPT !.status = "Discharged",
                !.notes = Coalesce(row.notes) \o extra_note]

\* T_Discharge, button "save D/C and F/U OPD plan".
DischargeOPD(pid, dc_date, plan_opd_text) ==
    LET extra_note == "[D/C " \o IsoFormat(dc_date) \o "] F/U OPD: "
                      \o plan_opd_text \o "\n"
    IN  /\ Selectable(pid)
        /\ cycle_input_shown(pid)
        /\ patients' = [patients EXCEPT ![pid] = Discharged(@, extra_note)]
        /\ lastOp' = [op |-> "discharge_opd", msg |-> "success", pid |-> pid,
                      extra_note |-> extra_note]
        /\ UNCHANGED <<hospitals, wards, seq_hospitals, seq_wards, rounds_logs,
                       transfers, chemo_templates, chemo_courses, today>>

\* ReadmitRow copying the source row's ward, bed, admit date and last round.
ReadmitRow_full_copy(data, pid, next_date) ==
    [patient_name       |-> data.patient_name,
     mrn                |-> data.mrn,
     age                |-> data.age,
     sex                |-> data.sex,
     hospital_id        |-> data.hospital_id,
     ward_id            |-> data.ward_id,
     status             |-> "Planned",
     planned_admit_date |-> IsoFormat(next_date),
     admit_date         |-> data.admit_date,
     bed                |-> data.bed,
     diagnosis          |-> data.diagnosis,
     responsible_md     |-> data.responsible_md,
     priority           |-> data.priority,
     precautions        |-> data.precautions,
     notes              |-> "Planned readmit after D/C from admission id "
                            \o ToString(pid),
     last_rounded_at    |-> data.last_rounded_at,
     weight_kg          |-> data.weight_kg,
     height_cm          |-> data.height_cm,
     bsa                |-> data.bsa,
     chemo_regimen      |-> data.chemo_regimen,
     chemo_total_cycles |-> data.chemo_total_cycles,
     chemo_interval_days |-> data.chemo_interval_days]

\* The Planned row the readmit plan inserts from `data`, the selected row as
\* read at the start of the script run.
ReadmitRow(data, pid, next_date) ==
    [patient_name       |-> data.patient_name,
     mrn                |-> data.mrn,
     age                |-> data.age,
     sex                |-> data.sex,
     hospital_id        |-> data.hospital_id,
     ward_id            |-> None,
     status             |-> "Planned",
     planned_admit_date |-> IsoFormat(next_date),
     admit_date         |-> NoneS,
     bed                |-> NoneS,
     diagnosis          |-> data.diagnosis,
     responsible_md     |-> data.responsible_md,
     priority           |-> data.priority,
     precautions        |-> data.precautions,
     notes              |-> "Planned readmit after D/C from admission id "
                            \o ToString(pid),
     last_rounded_at    |-> NoneS,
     weight_kg          |-> data.weight_kg,
     height_cm          |-> data.height_cm,
     bsa                |-> data.bsa,
     chemo_regimen      |-> data.chemo_regimen,
     chemo_total_cycles |-> data.chemo_total_cycles,
     chemo_interval_days |-> data.chemo_interval_days]

\* T_Discharge, button "save D/C and create the next admit plan".
DischargeReadmit(pid, dc_date, mode, picked_date, weeks_from_now) ==
    LET next_date  == next_admit_date(dc_date, mode, picked_date, weeks_from_now)
        extra_note == "[D/C " \o IsoFormat(dc_date) \o "] Planned readmit on "
                      \o IsoFormat(next_date) \o "\n"
    IN  /\ Selectable(pid)
        /\ cycle_input_shown(pid)
        /\ Len(patients) < MaxPatients
        /\ patients' = Append([patients EXCEPT ![pid] = Discharged(@, extra_note)],
                              ReadmitRow(patients[pid], pid, next_date))
        /\ lastOp' = [op |-> "discharge_readmit", msg |-> "success", pid |-> pid,
                      extra_note |-> extra_note, dc_date |-> dc_date,
                      mode |-> mode, picked_date |-> picked_date,
                      weeks_from_now |-> weeks_from_now]
        /\ UNCHANGED <<hospitals, wards, seq_hospitals, seq_wards, rounds_logs,
                       transfers, chemo_templates, chemo_courses, today>>

\* ------------------------------------------------------------------ clock

\* A day passes.
Tick ==
    /\ today < Day0 + MaxDays
    /\ today' = today + 1
    /\ lastOp' = [op |-> "tick", msg |-> "none"]
    /\ UNCHANGED store

\* --------------------------------------------------------- T_Chemo: plan

\* SaveBodyMetrics leaving the stored bsa as it was.
SaveBodyMetrics_keep_bsa(pid, weight_kg, height_cm) ==
    /\ Selectable(pid)
    /\ patients' = [patients EXCEPT
                      ![pid].weight_kg = OrNone(weight_kg),
                      ![pid].height_cm = OrNone(height_cm)]
    /\ lastOp' = [op |-> "save_body", msg |-> "success", pid |-> pid,
                  weight_kg |-> weight_kg, height_cm |-> height_cm]
    /\ UNCHANGED <<hospitals, wards, seq_hospitals, seq_wards, rounds_logs,
                   transfers, chemo_templates, chemo_courses, today>>

\* T_Chemo, button "save body metrics": weight_kg and height_cm are the widget
\* values, current_bsa is calc_bsa of them.
SaveBodyMetrics(pid, weight_kg, height_cm) ==
    /\ Selectable(pid)
    /\ patients' = [patients EXCEPT
                      ![pid].weight_kg = OrNone(weight_kg),
                      ![pid].height_cm = OrNone(height_cm),
                      ![pid].bsa = OrNone(calc_bsa(weight_kg, height_cm))]
    /\ lastOp' = [op |-> "save_body", msg |-> "success", pid |-> pid,
                  weight_kg |-> weight_kg, height_cm |-> height_cm]
    /\ UNCHANGED <<hospitals, wards, seq_hospitals, seq_wards, rounds_logs,
                   transfers, chemo_templates, chemo_courses, today>>

\* SaveChemoPlan renaming the regimen of the patient's ledger rows as well.
SaveChemoPlan_relabel(pid, regimen_name, total_cycles, interval_days) ==
    /\ Selectable(pid)
    /\ patients' = [patients EXCEPT
                      ![pid].chemo_regimen = OrNoneS(regimen_name),
                      ![pid].chemo_total_cycles = OrNone(total_cycles),
                      ![pid].chemo_interval_days = OrNone(interval_days)]
    /\ chemo_courses' = [i \in DOMAIN chemo_courses |->
                           IF chemo_courses[i].patient_id = pid
                           THEN [chemo_courses[i] EXCEPT !.regimen_name = regimen_name]
                           ELSE chemo_courses[i]]
    /\ lastOp' = [op |-> "save_plan", msg |-> "success", pid |-> pid]
    /\ UNCHANGED <<hospitals, wards, seq_hospitals, seq_wards, rounds_logs,
                   transfers, chemo_templates, today>>

\* T_Chemo, button "save chemo plan".
SaveChemoPlan(pid, regimen_name, total_cycles, interval_days) ==
    /\ Selectable(pid)
    /\ patients' = [patients EXCEPT
                      ![pid].chemo_regimen = OrNoneS(regimen_name),
                      ![pid].chemo_total_cycles = OrNone(total_cycles),
                      ![pid].chemo_interval_days = OrNone(interval_days)]
    /\ lastOp' = [op |-> "save_plan", msg |-> "success", pid |-> pid]
    /\ UNCHANGED <<hospitals, wards, seq_hospitals, seq_wards, rounds_logs,
                   transfers, chemo_templates, chemo_courses, today>>

\* -------------------------------------------------- T_Chemo: record a cycle

\* prev_df: the ledger rows of cycle prev_cycle_no of patient pid, in row order
\* (empty when prev_cycle_no < 1).
prev_df(pid, prev_cycle_no) ==
    LET Hit(r) == r.patient_id = pid /\ r.cycle_no = prev_cycle_no
    IN  IF prev_cycle_no >= 1 THEN SelectSeq(chemo_courses, Hit) ELSE << >>

\* prev_map.get(drug): the dose_mg of the last row of prev for drug, or None.
prev_map(prev, drug) ==
    LET hits == {i \in DOMAIN prev :
                   prev[i].drug_name = drug /\ prev[i].dose_mg # None}
    IN  IF hits = {} THEN None
        ELSE prev[CHOOSE i \in hits : \A j \in hits : j <= i].dose_mg

\* default_dose with the scaled template dose rounded to 0.1 mg.
default_dose_rounded(prev_dose, template_dose, dose_factor) ==
    IF prev_dose # None THEN prev_dose
    ELSE IF template_dose # None
    THEN ((template_dose * dose_factor + 50) \div 100) * 100
    ELSE 0

\* default_dose without the slider's factor on the template dose.
default_dose_unscaled(prev_dose, template_dose, dose_factor) ==
    IF prev_dose # None THEN prev_dose
    ELSE IF template_dose # None THEN template_dose * 100
    ELSE 0

\* The default the dose input of one template drug shows (1/1000 mg).
default_dose(prev_dose, template_dose, dose_factor) ==
    IF prev_dose # None THEN prev_dose
    ELSE IF template_dose # None THEN template_dose * dose_factor
    ELSE 0

\* What the operator does to the form before saving: nothing (idx 0), or
\* retype entry idx (its dose; in manual mode its drug name too).
NoEdit == [idx |-> 0, drug |-> "", value |-> 0]

\* Template mode: one entry per template row, the dose input being the default
\* unless the operator retyped it.
template_entries(rows, prev, dose_factor, edit) ==
    [i \in 1..Len(rows) |->
        LET prev_dose == prev_map(prev, rows[i].drug_name)
            default   == default_dose(prev_dose, rows[i].template_dose_mg,
                                      dose_factor)
        IN  [drug          |-> rows[i].drug_name,
             mode          |-> rows[i].mode,
             dose_per_m2   |-> rows[i].dose_per_m2,
             dose_per_kg   |-> rows[i].dose_per_kg,
             fixed_dose_mg |-> rows[i].fixed_dose_mg,
             final_dose    |-> IF edit.idx = i THEN edit.value ELSE default,
             template_dose |-> rows[i].template_dose_mg,
             prev_dose     |-> prev_dose,
             default       |-> default,
             touched       |-> edit.idx = i]]

\* Manual mode: max(1, len(prev_list)) inputs, or as many as the operator asks
\* for to reach the one retyped, named and dosed after the previous cycle's
\* rows; an input whose name is blank gives no entry.
\* (Lines 1407-1449 of app.py stand at the indentation of the script's top
\* level; they are read as the body of the `else:` of line 1406.)
manual_entries(prev, edit) ==
    LET num_rows == Max(Max(1, Len(prev)), edit.idx)
        dname(i) == IF edit.idx = i THEN edit.drug
                    ELSE IF i <= Len(prev) THEN Coalesce(prev[i].drug_name)
                    ELSE ""
        default(i) == IF i <= Len(prev) /\ Truthy(prev[i].dose_mg)
                      THEN prev[i].dose_mg ELSE 0
        all == [i \in 1..num_rows |->
                  [drug          |-> Strip(dname(i)),
                   mode          |-> "manual",
                   dose_per_m2   |-> None,
                   dose_per_kg   |-> None,
                   fixed_dose_mg |-> None,
                   final_dose    |-> IF edit.idx = i THEN edit.value
                                     ELSE default(i),
                   template_dose |-> None,
                   prev_dose     |-> IF i <= Len(prev) THEN prev[i].dose_mg
                                     ELSE None,
                   default       |-> default(i),
                   touched       |-> edit.idx = i]]
        Named(e) == e.drug # ""
    IN  SelectSeq(all, Named)

\* manual_drug_entries without the manual mode: a regimen without template
\* gives no entries.
manual_drug_entries_template_only(pid, weight_kg, height_cm, regimen_name, cycle_no, dose_factor, edit) ==
    LET rows == IF regimen_name # ""
                THEN compute_doses_for_template(regimen_name, weight_kg, height_cm)
                ELSE << >>
        prev == prev_df(pid, cycle_no - 1)
    IN  IF rows # << >> THEN template_entries(rows, prev, dose_factor, edit)
        ELSE << >>

\* manual_drug_entries as the cycle form builds it.
manual_drug_entries(pid, weight_kg, height_cm, regimen_name, cycle_no, dose_factor, edit) ==
    LET rows == IF regimen_name # ""
                THEN compute_doses_for_template(regimen_name, weight_kg, height_cm)
                ELSE << >>
        prev == prev_df(pid, cycle_no - 1)
    IN  IF rows # << >> THEN template_entries(rows, prev, dose_factor, edit)
        ELSE manual_entries(prev, edit)

\* The chemo_courses row of one entry.
CourseRow(pid, cycle_no, given_date, regimen_name, dose_factor, e) ==
    [patient_id    |-> pid,
     cycle_no      |-> cycle_no,
     given_date    |-> IsoFormat(given_date),
     regimen_name  |-> regimen_name,
     drug_name     |-> e.drug,
     mode          |-> e.mode,
     dose_per_m2   |-> e.dose_per_m2,
     dose_per_kg   |-> e.dose_per_kg,
     fixed_dose_mg |-> e.fixed_dose_mg,
     dose_mg       |-> e.final_dose,
     dose_factor   |-> dose_factor,
     notes         |-> NoneS]

\* insert_courses as an upsert on (patient, drug): the patient's earlier rows
\* of a drug of this cycle are dropped before the new rows are added.
insert_courses_upsert(pid, cycle_no, given_date, regimen_name, dose_factor, entries) ==
    LET Kept(r) == ~(r.patient_id = pid /\ \E i \in DOMAIN entries : entries[i].drug = r.drug_name)
    IN  SelectSeq(chemo_courses, Kept) \o
          [i \in 1..Len(entries) |->
              CourseRow(pid, cycle_no, given_date, regimen_name, dose_factor,
                        entries[i])]

\* The INSERTs of one saved cycle: one row per entry, appended in entry order.
insert_courses(pid, cycle_no, given_date, regimen_name, dose_factor, entries) ==
    chemo_courses \o
      [i \in 1..Len(entries) |->
          CourseRow(pid, cycle_no, given_date, regimen_name, dose_factor,
                    entries[i])]

\* T_Chemo, button "save this chemo cycle". weight_kg, height_cm, regimen_name,
\* cycle_no, given_date and dose_factor are the widgets' values at the click.
SaveCycle(pid, weight_kg, height_cm, regimen_name, cycle_no, given_date, dose_factor, edit) ==
    LET entries == manual_drug_entries(pid, weight_kg, height_cm, regimen_name,
                                       cycle_no, dose_factor, edit)
        form == [op |-> "save_cycle", pid |-> pid, cycle_no |-> cycle_no,
                 weight_kg |-> weight_kg, height_cm |-> height_cm,
                 regimen_name |-> regimen_name, dose_factor |-> dose_factor,
                 suggested |-> next_cycle(pid),
                 first |-> Len(chemo_courses) + 1, edit |-> edit,
                 entries |-> entries]
    IN  /\ Selectable(pid)
        /\ cycle_input_shown(pid)
        /\ cycle_no \in 1..max_cycle_no
        /\ Len(chemo_courses) + Len(entries) <= MaxCourses
        /\ IF regimen_name = "" \/ Len(entries) = 0
           THEN /\ lastOp' = [form EXCEPT !.op = "save_cycle_rejected"] @@ [msg |-> "error"]
                /\ UNCHANGED <<store, today>>
           ELSE /\ chemo_courses' = insert_courses(pid, cycle_no, given_date,
                                        regimen_name, dose_factor, entries)
                /\ lastOp' = form @@ [msg |-> "success"]
                /\ UNCHANGED <<hospitals, wards, seq_hospitals, seq_wards,
                               patients, rounds_logs, transfers,
                               chemo_templates, today>>

\* ------------------------------------------------------ sidebar: restore

\* The store of a database file written by the first start of the program.
FreshStore ==
    << SeedHospitals, {}, 3, 0, << >>, << >>, << >>, seed_chemo_templates({}),
       << >> >>

\* Restore leaving the chemo_templates table empty, as if init_db did not
\* seed the built-in templates again.
Restore_unseeded ==
    /\ hospitals' = FreshStore[1]
    /\ wards' = FreshStore[2]
    /\ seq_hospitals' = FreshStore[3]
    /\ seq_wards' = FreshStore[4]
    /\ patients' = FreshStore[5]
    /\ rounds_logs' = FreshStore[6]
    /\ transfers' = FreshStore[7]
    /\ chemo_templates' = {}
    /\ chemo_courses' = FreshStore[9]
    /\ lastOp' = [op |-> "restore", msg |-> "success"]
    /\ UNCHANGED today

\* Sidebar uploader: the uploaded file replaces the database file. The file
\* drawn is a backup taken right after the first start.
Restore ==
    /\ hospitals' = FreshStore[1]
    /\ wards' = FreshStore[2]
    /\ seq_hospitals' = FreshStore[3]
    /\ seq_wards' = FreshStore[4]
    /\ patients' = FreshStore[5]
    /\ rounds_logs' = FreshStore[6]
    /\ transfers' = FreshStore[7]
    /\ chemo_templates' = FreshStore[8]
    /\ chemo_courses' = FreshStore[9]
    /\ lastOp' = [op |-> "restore", msg |-> "success"]
    /\ UNCHANGED today

\* T_Chemo, form add_assess_form: submit. The row goes to chemo_assessments,
\* a table no other handler reads back into the tables of the store.
SaveAssessment(pid) ==
    /\ Selectable(pid)
    /\ lastOp' = [op |-> "save_assessment", msg |-> "success", pid |-> pid]
    /\ UNCHANGED <<store, today>>

\* T_Chemo, cycle form drawn with a regimen, weight and height: the template
\* rows are computed for the dose inputs; nothing is written.
ShowTemplateDoses(pid, weight_kg, height_cm, regimen_name) ==
    /\ Selectable(pid)
    /\ lastOp' = [op |-> "template_doses", msg |-> "none", pid |-> pid,
                  regimen_name |-> regimen_name,
                  weight_kg |-> weight_kg, height_cm |-> height_cm,
                  rows |-> compute_doses_for_template(regimen_name, weight_kg, height_cm)]
    /\ UNCHANGED <<store, today>>

\* ------------------------------------------------- the chemo specification

\* The inputs the chemo forms are given: body (weight kg, height cm), regimen
\* name (a built-in template, a name without template, none), slider factor,
\* and what the operator retypes.
Bodies == { <<0, 0>>, <<70, 170>> }

RegimenInputs == {"", "CHOP", "ICE-GD"}

Factors == {75, 100}

Edits == {NoEdit} \cup
         {[idx |-> i, drug |-> "DrugX", value |-> 5000] : i \in 1..MaxEditIdx}

ProfileA == CHOOSE prof \in Profiles : prof.mrn = "HN001"

\* The cycle form is given a cycle number that has no rows yet for the patient.
Unrecorded(pid, cycle_no) ==
    \A i \in DOMAIN chemo_courses :
        ~(chemo_courses[i].patient_id = pid /\ chemo_courses[i].cycle_no = cycle_no)

\* The name typed for the n-th patient added.
NameInputs == <<"Ann", "Bob", "Cho", "Dee">>

NextChemo ==
    \/ AddPatient(NameInputs[Len(patients) + 1], ProfileA, "Hospital 1", "", "Admitted", today, today, "", "")
    \/ \E pid \in PatientIds, c \in 1..MaxCycleNo :
          /\ Unrecorded(pid, c)
          /\ \E b \in Bodies, r \in RegimenInputs, f \in Factors, e \in Edits :
                SaveCycle(pid, b[1], b[2], r, c, today, f, e)
    \/ Restore

SpecChemo == Init /\ [][NextChemo]_vars

\* --------------------------------------------- the lifecycle specification

\* What the add-patient form is given besides name and status: the filled
\* profile with a note, or the blank profile without one.
ProfileB == CHOOSE prof \in Profiles : prof.mrn = ""

Intakes == { <<ProfileA, "on steroids">>, <<ProfileB, "">> }

\* How the next admission date is entered: picked (the default, D/C + 21
\* days) or as a number of weeks (the default, 3, or 1).
ReadmitInputs == { <<"direct", 21, 0>>, <<"weeks", 0, 1>> }

NextLifecycle ==
    \/ AddWard("Hospital 1", "W1")
    \/ \E in \in Intakes, st \in Range(STATUSES) :
          AddPatient(NameInputs[Len(patients) + 1], in[1], "Hospital 1", "", st, today, today, "", in[2])
    \/ \E pid \in PatientIds, w \in {""} \cup {x.name : x \in wards} :
          Promote(pid, "Hospital 1", w, IF w = "" THEN "" ELSE "B1", today)
    \/ \E pid \in PatientIds : AddRoundsNote(pid, "Dr A", "stable")
    \/ \E pid \in PatientIds : SaveBodyMetrics(pid, 70, 170)
    \/ \E pid \in PatientIds : SaveChemoPlan(pid, "CHOP", 6, 21)
    \/ \E pid \in PatientIds, text \in {"", "OPD 3 mo"} : DischargeOPD(pid, today, text)
    \/ \E pid \in PatientIds, r \in ReadmitInputs :
          DischargeReadmit(pid, today, r[1], today + r[2], r[3])

SpecLifecycle == Init /\ [][NextLifecycle]_vars

\* ---------------------------------------------- the settings specification

NextSettings ==
    \/ \E name \in {"", "Hospital 1", "Hospital 9"} : AddHospital(name)
    \/ \E id \in 1..MaxHospitalId : DeleteHospital(id)
    \/ \E h \in {""} \cup HospitalNames, name \in {"", "W1"} : AddWard(h, name)
    \/ \E id \in 1..MaxWardId : DeleteWard(id)
    \/ \E name \in {"", " ", NameInputs[Len(patients) + 1]}, h \in {""} \cup HospitalNames,
          w \in {"", "W1"}, st \in {"Admitted", "Discharged"} :
          /\ Len(patients) < MaxSettingsPatients
          /\ AddPatient(name, ProfileB, h, w, st, today, today, "", "")

SpecSettings == Init /\ [][NextSettings]_vars

\* --------------------------------------------------- the dose specification

\* The weight / height inputs given to the body and cycle forms (0 is the
\* value of an input left empty), and the names of the built-in templates.
DoseWeights == {0, 55, 70}

DoseHeights == {0, 160, 170}

TemplateNames == {t.name : t \in templates}

NextDose ==
    \/ /\ Len(patients) < MaxDosePatients
       /\ AddPatient(NameInputs[Len(patients) + 1], ProfileA, "Hospital 1", "", "Admitted", today, today, "", "")
    \/ \E pid \in PatientIds, w \in DoseWeights, h \in DoseHeights :
          SaveBodyMetrics(pid, w, h)
    \/ \E pid \in PatientIds, w \in DoseWeights, h \in DoseHeights, r \in TemplateNames :
          /\ Unrecorded(pid, 1)
          /\ SaveCycle(pid, w, h, r, 1, today, 100, NoEdit)

SpecDose == Init /\ [][NextDose]_vars

\* ---------------------------------------------- the body specification

\* One admission whose body metrics are saved, discharged with a readmission
\* whose body metrics are saved in turn.
NextBody ==
    \/ /\ Len(patients) = 0
       /\ AddPatient(NameInputs[1], ProfileA, "Hospital 1", "", "Admitted", today, today, "", "")
    \/ \E pid \in PatientIds, w \in DoseWeights, h \in DoseHeights :
          SaveBodyMetrics(pid, w, h)
    \/ \E pid \in PatientIds, r \in ReadmitInputs :
          DischargeReadmit(pid, today, r[1], today + r[2], r[3])

SpecBody == Init /\ [][NextBody]_vars

\* ------------------------------------------------ the cycles specification

\* The value the dose-factor slider shows before the operator moves it
\* (value=1.0), in 1/100.
slider_default == 100

\* The cycle numbers typed into the cycle form: recorded or not, in any order,
\* with gaps, up to the largest the input takes.
CycleInputs == 1..(MaxCycleNo + 1) \cup {max_cycle_no}

\* One patient of 70 kg and 170 cm: the plan is saved and cycles are recorded
\* under any cycle number, with a template or by hand.
NextCycles ==
    \/ /\ Len(patients) < MaxCyclePatients
       /\ AddPatient(NameInputs[Len(patients) + 1], ProfileA, "Hospital 1", "", "Admitted", today, today, "", "")
    \/ \E pid \in PatientIds, r \in RegimenInputs : SaveChemoPlan(pid, r, 6, 21)
    \/ \E pid \in PatientIds, c \in CycleInputs, r \in RegimenInputs, f \in Factors, e \in Edits :
          /\ Len(chemo_courses) <= (IF get_chemo_template_by_name(r) # << >>
                                     THEN MaxPriorRows ELSE MaxPriorRowsManual)
          /\ SaveCycle(pid, 70, 170, r, c, today, f, e)

SpecCycles == Init /\ [][NextCycles]_vars

\* ------------------------------------------------ the rounds specification

\* Patients of every status in one hospital: rounds notes are written, with and
\* without text, and edited; patients are admitted and discharged; days pass.
NextRounds ==
    \/ \E st \in Range(STATUSES) :
          /\ Len(patients) < MaxRoundsPatients
          /\ AddPatient(NameInputs[Len(patients) + 1], ProfileA, "Hospital 1", "", st, today, today, "", "")
    \/ \E pid \in PatientIds, n \in {"", " ", "stable"} :
          AddRoundsNote(pid, "Dr A", n)
    \/ \E pid \in PatientIds, id \in 1..MaxRounds, n \in {"", "afebrile"} :
          EditRound(pid, id, "Dr B", n)
    \/ \E pid \in PatientIds : Promote(pid, "Hospital 1", "", "", today)
    \/ \E pid \in PatientIds : DischargeOPD(pid, today, "")
    \/ Tick

SpecRounds == Init /\ [][NextRounds]_vars

\* ------------------------------------------------ the places specification

\* Hospitals and wards are added and deleted while a patient is added, admitted,
\* transferred and discharged with a readmission. Patients and wards go to the
\* first two hospitals, which are also the ones deleted.
PlaceNames == {"Hospital 1", "Hospital 2"} \cap HospitalNames

NextPlaces ==
    \/ AddHospital("Hospital 9")
    \/ \E h \in PlaceNames : DeleteHospital(hosp_ids(h))
    \/ \E h \in PlaceNames : AddWard(h, "W1")
    \/ \E id \in 1..MaxWardId : DeleteWard(id)
    \/ \E h \in PlaceNames, w \in {"", "W1"}, st \in {"Planned", "Admitted"} :
          /\ Len(patients) < MaxPlacesPatients
          /\ AddPatient(NameInputs[Len(patients) + 1], ProfileB, h, w, st, today, today, "", "")
    \/ \E pid \in PatientIds, h \in PlaceNames, w \in {"", "W1"} :
          Promote(pid, h, w, "", today)
    \/ \E pid \in PatientIds, h \in PlaceNames, w \in {"", "W1"}, reason \in {"", "closer to home"} :
          Transfer(pid, h, w, reason)
    \/ \E pid \in PatientIds : DischargeReadmit(pid, today, "direct", today + 21, 0)

SpecPlaces == Init /\ [][NextPlaces]_vars

\* ------------------------------------------------ every operation at once

\* ------------------------------------------- the template-dose specification

\* The regimen names, weights and heights the cycle form is drawn with.
PureRegimens == {"CHOP", "ICE", "ICE-GD"}

PureWeights == {55, 70}

PureHeights == {160, 170}

NextPure ==
    \/ /\ Len(patients) < MaxDosePatients
       /\ AddPatient(NameInputs[Len(patients) + 1], ProfileA, "Hospital 1", "", "Admitted", today, today, "", "")
    \/ \E pid \in PatientIds, w \in PureWeights, h \in PureHeights : SaveBodyMetrics(pid, w, h)
    \/ \E pid \in PatientIds, w \in PureWeights, h \in PureHeights, r \in PureRegimens :
          /\ Unrecorded(pid, 1)
          /\ SaveCycle(pid, w, h, r, 1, today, 100, NoEdit)
    \/ \E pid \in PatientIds, w \in PureWeights, h \in PureHeights, r \in PureRegimens :
          ShowTemplateDoses(pid, w, h, r)
    \/ Restore

SpecPure == Init /\ [][NextPure]_vars

\* ----------------------------------------------- the terminal specification

NextTerminal ==
    \/ \E st \in Range(STATUSES) :
          /\ Len(patients) < MaxTerminalPatients
          /\ AddPatient(NameInputs[Len(patients) + 1], ProfileA, "Hospital 1", "", st, today, today, "", "")
    \/ \E pid \in PatientIds : Promote(pid, "Hospital 2", "", "B1", today)
    \/ \E pid \in PatientIds : SaveBed(pid, "B2")
    \/ \E pid \in PatientIds :
          /\ \A i \in DOMAIN rounds_logs : rounds_logs[i].patient_id # pid
          /\ AddRoundsNote(pid, "Dr A", "stable")
    \/ \E pid \in PatientIds, id \in 1..MaxRounds : EditRound(pid, id, "Dr B", "afebrile")
    \/ \E pid \in PatientIds :
          /\ \A i \in DOMAIN transfers : transfers[i].patient_id # pid
          /\ Transfer(pid, "Hospital 2", "", "")
    \/ \E pid \in PatientIds, id \in 1..MaxTransfers : EditTransfer(pid, id, "closer to home")
    \/ \E pid \in PatientIds : SaveBodyMetrics(pid, 70, 170)
    \/ \E pid \in PatientIds : SaveChemoPlan(pid, "CHOP", 6, 21)
    \/ \E pid \in PatientIds :
          /\ Unrecorded(pid, 1)
          /\ SaveCycle(pid, 70, 170, "CHOP", 1, today, 100, NoEdit)
    \/ \E pid \in PatientIds : SaveAssessment(pid)
    \/ \E pid \in PatientIds : DischargeOPD(pid, today, "")
    \/ \E pid \in PatientIds : DischargeReadmit(pid, today, "direct", today + 21, 0)

SpecTerminal == Init /\ [][NextTerminal]_vars

\* Any one operation of the application, on the inputs of the specifications
\* above.
Next ==
    \/ NextChemo
    \/ NextLifecycle
    \/ NextSettings
    \/ NextDose
    \/ NextCycles
    \/ NextBody
    \/ NextRounds
    \/ NextPlaces
    \/ NextPure
    \/ NextTerminal
    \/ \E pid \in PatientIds, b \in {"", "B2"} : SaveBed(pid, b)
    \/ \E pid \in PatientIds, id \in 1..MaxRounds : EditRound(pid, id, "Dr B", "afebrile")
    \/ \E pid \in PatientIds, h \in HospitalNames, w \in {"", "W1"} : Transfer(pid, h, w, "")
    \/ \E pid \in PatientIds, id \in 1..MaxTransfers : EditTransfer(pid, id, "closer to home")
    \/ Tick

Spec == Init /\ [][Next]_vars

\* ----------------------------------------------------- claims: the ledger

\* The last operation was a successful "save this chemo cycle".
Saved == lastOp.op = "save_cycle"

\* The chemo_courses row the last save wrote for its i-th form entry.
SavedRow(i) == chemo_courses[lastOp.first + i - 1]

\* The last save was made in template mode (the regimen has a template).
SavedFromTemplate == Saved /\ \A i \in DOMAIN lastOp.entries : lastOp.entries[i].mode # "manual"

\* C1 as stated: in every row written by recording a cycle, dose_mg is the
\* template dose times the stored dose_factor, and a row whose template dose
\* is undefined is stored with factor 1.0.
C1_Original ==
    Saved =>
        \A i \in DOMAIN lastOp.entries :
            LET e == lastOp.entries[i]
            IN  IF e.template_dose # None
                THEN SavedRow(i).dose_mg = e.template_dose * SavedRow(i).dose_factor
                ELSE SavedRow(i).dose_factor = 100

\* C1 as amended: every row written by recording a cycle stores the value of
\* its dose input at the click and the slider's factor; the stored dose is the
\* template dose times the stored factor when the template dose is defined,
\* the drug has no dose in the previous cycle and the operator left the input
\* alone.
C1_StoredDose ==
    Saved =>
        \A i \in DOMAIN lastOp.entries :
            LET e == lastOp.entries[i]
            IN  /\ SavedRow(i).dose_mg = e.final_dose
                /\ SavedRow(i).dose_factor = lastOp.dose_factor
                /\ (e.template_dose # None /\ e.prev_dose = None /\ ~e.touched)
                      => SavedRow(i).dose_mg = e.template_dose * SavedRow(i).dose_factor

\* A cycle saved at factor 0.75 with an untouched template-derived dose.
C1_Witness ==
    /\ Saved
    /\ lastOp.dose_factor = 75
    /\ \E i \in DOMAIN lastOp.entries :
          LET e == lastOp.entries[i]
          IN  /\ e.template_dose # None /\ e.prev_dose = None /\ ~e.touched
              /\ SavedRow(i).dose_mg > 0

\* Multiplication that propagates the undefined value.
MulOrNone(a, b) == IF a = None \/ b = None THEN None ELSE a * b

\* C2 as stated: the default proposed for each template drug of cycle N is the
\* dose_mg recorded for the same drug name in cycle N-1 of the patient if
\* there is one, and template_dose times the slider factor otherwise.
C2_Original ==
    SavedFromTemplate =>
        \A i \in DOMAIN lastOp.entries :
            LET e == lastOp.entries[i]
                recorded == {chemo_courses[j].dose_mg : j \in
                               {k \in DOMAIN chemo_courses :
                                  /\ chemo_courses[k].patient_id = lastOp.pid
                                  /\ chemo_courses[k].cycle_no = lastOp.cycle_no - 1
                                  /\ chemo_courses[k].drug_name = e.drug}}
            IN  IF recorded # {} THEN e.default \in recorded
                ELSE e.default = MulOrNone(e.template_dose, lastOp.dose_factor)

\* C3 as stated: an undefined template dose is proposed as undefined, never as
\* zero, and its row is committed only with a value the operator supplied.
C3_Original ==
    SavedFromTemplate =>
        \A i \in DOMAIN lastOp.entries :
            LET e == lastOp.entries[i]
            IN  (e.template_dose = None /\ e.prev_dose = None)
                    => (e.default # 0 /\ e.touched)

\* C6 as stated: over any sequence of operations a chemo_courses row, once
\* written, is never deleted and never changed.
C6_Original == [][IsPrefix(chemo_courses, chemo_courses')]_vars

\* C6 as amended: over any sequence of operations other than the restore of a
\* database file, a chemo_courses row, once written, is never deleted and
\* never changed; recording a cycle only adds rows.
C6_AppendOnly ==
    [][/\ ~Restore => IsPrefix(chemo_courses, chemo_courses')
       /\ lastOp'.op = "save_cycle" =>
             /\ IsPrefix(chemo_courses, chemo_courses')
             /\ Len(chemo_courses') = Len(chemo_courses) + Len(lastOp'.entries)]_vars

\* A cycle recorded on top of a ledger that already holds rows for the same
\* patient and drug.
C6_Witness ==
    /\ Saved
    /\ lastOp.first > 1
    /\ \E j \in 1..(lastOp.first - 1) :
          /\ chemo_courses[j].patient_id = lastOp.pid
          /\ chemo_courses[j].drug_name = SavedRow(1).drug_name

\* -------------------------------------------------- claims: the lifecycle

\* The status changes the specification's state machine allows.
AllowedTransitions ==
    { <<"Planned", "Admitted">>, <<"Admitted", "Discharged">>,
      <<"Planned", "Cancelled">> }

\* C4 as stated: over any sequence of operations every change of a patient
\* row's status is Planned->Admitted, Admitted->Discharged or
\* Planned->Cancelled.
C4_Original ==
    [][\A pid \in DOMAIN patients \cap DOMAIN patients' :
          patients'[pid].status # patients[pid].status =>
             <<patients[pid].status, patients'[pid].status>> \in AllowedTransitions]_vars

\* Any one operation whose handler writes the patients table (the other
\* handlers leave every patient row as it is).
PatientWrites ==
    \/ \E name \in {"Ann", "Bob"}, prof \in Profiles, st \in Range(STATUSES) :
          AddPatient(name, prof, "Hospital 1", "", st, today, today, "", "")
    \/ \E pid \in PatientIds, h \in HospitalNames, w \in {"", "W1"}, b \in {"", "B1"} :
          Promote(pid, h, w, b, today)
    \/ \E pid \in PatientIds, b \in {"", "B2"} : SaveBed(pid, b)
    \/ \E pid \in PatientIds : AddRoundsNote(pid, "Dr A", "stable")
    \/ \E pid \in PatientIds, h \in HospitalNames, w \in {"", "W1"} : Transfer(pid, h, w, "")
    \/ \E pid \in PatientIds, b \in Bodies : SaveBodyMetrics(pid, b[1], b[2])
    \/ \E pid \in PatientIds, r \in RegimenInputs : SaveChemoPlan(pid, r, 6, 21)
    \/ \E pid \in PatientIds, text \in {"", "OPD 3 mo"} : DischargeOPD(pid, today, text)
    \/ \E pid \in PatientIds, r \in ReadmitInputs :
          DischargeReadmit(pid, today, r[1], today + r[2], r[3])
    \/ Restore

\* C5 as stated: whenever a patient row is Planned, some operation of the
\* application can move that row to Cancelled.
C5_Original ==
    \A pid \in PatientIds :
        patients[pid].status = "Planned" =>
            ENABLED (PatientWrites /\ pid \in DOMAIN patients'
                                   /\ patients'[pid].status = "Cancelled")

\* The columns the readmit plan copies from the source row.
CopiedColumns ==
    {"patient_name", "mrn", "age", "sex", "diagnosis", "responsible_md",
     "priority", "precautions", "weight_kg", "height_cm", "bsa",
     "chemo_regimen", "chemo_total_cycles", "chemo_interval_days"}

\* C7: discharge-with-readmit creates exactly one new patient row, Planned,
\* whose planned_admit_date is the next-admission date (the date picked, or
\* the discharge date plus the weeks entered) and whose demographic, body and
\* chemo-plan columns equal the source row's.
C7_Readmit ==
    [][lastOp'.op = "discharge_readmit" =>
          LET src == patients[lastOp'.pid]
              new == patients'[Len(patients')]
              next_date == IF lastOp'.mode = "direct" THEN lastOp'.picked_date
                           ELSE lastOp'.dc_date + 7 * lastOp'.weeks_from_now
          IN  /\ Len(patients') = Len(patients) + 1
              /\ new.status = "Planned"
              /\ new.planned_admit_date = IsoFormat(next_date)
              /\ \A c \in CopiedColumns : new[c] = src[c]]_vars

\* A readmit in weeks mode from a row with a filled profile, body metrics and
\* a chemo plan.
C7_Witness ==
    /\ lastOp.op = "discharge_readmit"
    /\ lastOp.mode = "weeks"
    /\ patients[lastOp.pid].mrn = "HN001"
    /\ patients[lastOp.pid].bsa = 1090871
    /\ patients[lastOp.pid].chemo_regimen = "CHOP"
    /\ patients[Len(patients)].planned_admit_date = "2026-11-08"

\* C8: on either discharge path the source row's status becomes Discharged and
\* its notes become the original notes (empty when NULL) followed by the
\* discharge annotation; no other column of the source row changes, and the
\* F/U OPD path creates no patient row.
C8_Discharge ==
    [][lastOp'.op \in {"discharge_opd", "discharge_readmit"} =>
          LET src == patients[lastOp'.pid]
              dst == patients'[lastOp'.pid]
          IN  /\ dst.status = "Discharged"
              /\ dst.notes = (IF src.notes = NoneS THEN "" ELSE src.notes)
                                \o lastOp'.extra_note
              /\ SubSeq(lastOp'.extra_note, 1, 5) = "[D/C "
              /\ \A c \in DOMAIN src \ {"status", "notes"} : dst[c] = src[c]
              /\ lastOp'.op = "discharge_opd" => Len(patients') = Len(patients)]_vars

\* An F/U OPD discharge of a row that had no notes.
C8_Witness ==
    /\ lastOp.op = "discharge_opd"
    /\ patients[lastOp.pid].status = "Discharged"
    /\ patients[lastOp.pid].notes = "[D/C 2026-11-01] F/U OPD: OPD 3 mo\n"

\* C9: the Planned row spawned by discharge-with-readmit has NULL ward, bed,
\* admit date and last-rounded timestamp, whatever the source row held.
C9_Cleared ==
    [][lastOp'.op = "discharge_readmit" =>
          LET new == patients'[Len(patients')]
          IN  /\ new.ward_id = None
              /\ new.bed = NoneS
              /\ new.admit_date = NoneS
              /\ new.last_rounded_at = NoneS]_vars

\* A readmit from a row that had a ward, a bed, an admit date and a round.
C9_Witness ==
    /\ lastOp.op = "discharge_readmit"
    /\ patients[lastOp.pid].ward_id # None
    /\ patients[lastOp.pid].bed = "B1"
    /\ patients[lastOp.pid].admit_date # NoneS
    /\ patients[lastOp.pid].last_rounded_at # NoneS
    /\ patients[Len(patients)].ward_id = None
    /\ patients[Len(patients)].bed = NoneS

\* --------------------------------------------------- claims: the settings

\* C10: deleting a hospital or a ward that at least one patient row (of any
\* status) references reports failure and leaves every table unchanged.
C10_DeleteRefused ==
    [][(\/ /\ lastOp'.op = "delete_hospital"
           /\ \E p \in PatientIds : patients[p].hospital_id = lastOp'.id
        \/ /\ lastOp'.op = "delete_ward"
           /\ \E p \in PatientIds : patients[p].ward_id = lastOp'.id)
         => (lastOp'.msg = "error" /\ UNCHANGED store)]_vars

\* A refused delete of a ward that only a Discharged row references.
C10_Witness ==
    /\ lastOp.op = "delete_ward"
    /\ lastOp.msg = "error"
    /\ \E w \in wards : w.id = lastOp.id
    /\ \E p \in PatientIds : patients[p].ward_id = lastOp.id
    /\ \A p \in PatientIds : patients[p].status = "Discharged"

\* C11: deleting a hospital that no patient references removes that hospital
\* and all wards whose hospital_id is that hospital, and removes no other
\* hospital or ward.
C11_DeleteCascade ==
    [][(/\ lastOp'.op = "delete_hospital"
        /\ ~\E p \in PatientIds : patients[p].hospital_id = lastOp'.id)
         => /\ lastOp'.msg = "success"
            /\ ~\E h \in hospitals' : h.id = lastOp'.id
            /\ ~\E w \in wards' : w.hospital_id = lastOp'.id
            /\ \A h \in hospitals : h.id # lastOp'.id => h \in hospitals'
            /\ \A w \in wards : w.hospital_id # lastOp'.id => w \in wards'
            /\ wards' \subseteq wards]_vars

\* A hospital deleted together with a ward of its own while another
\* hospital's ward stays.
C11_Witness ==
    /\ lastOp.op = "delete_hospital"
    /\ lastOp.msg = "success"
    /\ lastOp.cascaded = 1
    /\ Cardinality(wards) = 1
    /\ ~\E h \in hospitals : h.id = lastOp.id

\* ------------------------------------------------ claims: the dose rules

\* The template item behind the i-th entry of the last save.
SavedItem(i) == get_chemo_template_by_name(lastOp.regimen_name)[i]

\* The BSA of the body the last save was given.
SavedBsa == calc_bsa(lastOp.weight_kg, lastOp.height_cm)

\* a * b as <<millions, rest>> (a * b below 2 * 10^12).
Prod(a, b) ==
    LET hi == a * (b \div 1000)
        lo == (hi % 1000) * 1000 + a * (b % 1000)
    IN  << hi \div 1000 + lo \div 1000000, lo % 1000000 >>

\* n * 300000 as <<millions, rest>>.
Halves(n) == << (3 * n) \div 10, ((3 * n) % 10) * 100000 >>

LimbLeq(x, y) == x[1] < y[1] \/ (x[1] = y[1] /\ x[2] <= y[2])

\* d (1/10 mg) is coeff (1/10 mg per m2) times bsa (1/600000 m2) to the
\* nearest 1/10 mg.
IsProduct(d, coeff, bsa) ==
    /\ LimbLeq(Halves(2 * d - 1), Prod(coeff, bsa))
    /\ LimbLeq(Prod(coeff, bsa), Halves(2 * d + 1))

\* coeff * bsa exceeds cap (1/10 mg).
OverCap(coeff, bsa, cap) == ~LimbLeq(Prod(coeff, bsa), Halves(2 * cap))

\* C12: for a per-BSA rule with coefficient k the template dose (to the 0.1 mg
\* it is returned with) is min(k*BSA, cap) when BSA is defined and a cap is
\* present, k*BSA when BSA is defined and there is no cap, and undefined when
\* BSA is undefined.
C12_PerBsa ==
    SavedFromTemplate =>
        \A i \in DOMAIN lastOp.entries :
            LET e == lastOp.entries[i]
                cap == SavedItem(i).max_mg
            IN  e.mode = "per_m2" =>
                  IF SavedBsa = None THEN e.template_dose = None
                  ELSE IF cap # None /\ OverCap(e.dose_per_m2, SavedBsa, cap)
                  THEN e.template_dose = cap
                  ELSE IsProduct(e.template_dose, e.dose_per_m2, SavedBsa)

\* DA-EPOCH-R at 70 kg / 170 cm: a capped rule under its cap (Vincristine
\* 0.4 mg/m2, 0.7 mg) beside uncapped ones.
C12_Witness ==
    /\ SavedFromTemplate
    /\ lastOp.regimen_name = "DA-EPOCH-R"
    /\ SavedBsa = 1090871
    /\ lastOp.entries[3].template_dose = 7
    /\ SavedItem(3).max_mg = 20
    /\ lastOp.entries[4].template_dose = 13636

\* C13: for a per-weight rule with coefficient k the template dose is
\* k*weight when the weight is nonzero and undefined otherwise, whatever the
\* height.
C13_PerKg ==
    SavedFromTemplate =>
        \A i \in DOMAIN lastOp.entries :
            LET e == lastOp.entries[i]
            IN  e.mode = "per_kg" =>
                  e.template_dose = IF lastOp.weight_kg = 0 THEN None
                                    ELSE e.dose_per_kg * lastOp.weight_kg

\* BV-AVD saved with a weight and no height: Brentuximab 1.2 mg/kg * 55 kg.
C13_Witness ==
    /\ SavedFromTemplate
    /\ lastOp.regimen_name = "BV-AVD"
    /\ lastOp.weight_kg = 55
    /\ lastOp.height_cm = 0
    /\ lastOp.entries[1].template_dose = 660

\* C14: for a fixed rule the template dose is the rule's fixed value for
\* every weight and height, zero ones included.
C14_Fixed ==
    SavedFromTemplate =>
        \A i \in DOMAIN lastOp.entries :
            LET e == lastOp.entries[i]
            IN  e.mode = "fixed" =>
                  /\ e.template_dose = e.fixed_dose_mg
                  /\ e.template_dose # None

\* CHOP saved with neither weight nor height: Prednisolone 100 mg.
C14_Witness ==
    /\ SavedFromTemplate
    /\ lastOp.regimen_name = "CHOP"
    /\ lastOp.weight_kg = 0
    /\ lastOp.height_cm = 0
    /\ lastOp.entries[4].template_dose = 1000

\* C15: the BSA saved with the body metrics is sqrt(weight*height/3600), here
\* the largest b with (b/10^4)^2 <= weight*height, for every positive weight
\* and height, and is undefined exactly when the weight or the height is zero.
C15_Bsa ==
    lastOp.op = "save_body" =>
        LET w == lastOp.weight_kg
            h == lastOp.height_cm
            b == patients[lastOp.pid].bsa
        IN  /\ b = None <=> (w = 0 \/ h = 0)
            /\ b # None =>
                 /\ LimbLeq(Prod(b, b), << 100 * w * h, 0 >>)
                 /\ ~LimbLeq(Prod(b + 1, b + 1), << 100 * w * h, 0 >>)

\* 55 kg and 160 cm: sqrt(8800 / 3600) = 1.56347... m2.
C15_Witness ==
    /\ lastOp.op = "save_body"
    /\ lastOp.weight_kg = 55
    /\ lastOp.height_cm = 160
    /\ patients[lastOp.pid].bsa = 938083

\* C16: the factor is applied after the cap. For a capped per-BSA rule whose
\* drug has no dose in the previous cycle, the dose proposed, and stored when
\* the operator leaves it alone, is factor * min(k*BSA, cap); at factor 0.75
\* every dose stored that way, capped rule or not, is exactly 75% of its
\* template dose.
C16_FactorAfterCap ==
    SavedFromTemplate =>
        \A i \in DOMAIN lastOp.entries :
            LET e == lastOp.entries[i]
                cap == SavedItem(i).max_mg
            IN  /\ (e.mode = "per_m2" /\ cap # None /\ SavedBsa # None /\ e.prev_dose = None) =>
                      /\ IF OverCap(e.dose_per_m2, SavedBsa, cap)
                         THEN e.default = lastOp.dose_factor * cap
                         ELSE \E d \in 0..cap :
                                 /\ IsProduct(d, e.dose_per_m2, SavedBsa)
                                 /\ e.default = lastOp.dose_factor * d
                      /\ ~e.touched => SavedRow(i).dose_mg = e.default
                /\ (/\ e.template_dose # None /\ e.prev_dose = None /\ ~e.touched
                    /\ lastOp.dose_factor = 75) =>
                      100 * SavedRow(i).dose_mg = 75 * (100 * e.template_dose)

\* CHOP at 70 kg / 170 cm and factor 0.75: Vincristine 1.4 mg/m2 * 1.818 m2 is
\* capped at 2.0 mg and stored as 1.5 mg.
C16_Witness ==
    /\ SavedFromTemplate
    /\ lastOp.dose_factor = 75
    /\ lastOp.entries[3].drug = "Vincristine"
    /\ OverCap(lastOp.entries[3].dose_per_m2, SavedBsa, SavedItem(3).max_mg)
    /\ lastOp.entries[3].template_dose = 20
    /\ lastOp.entries[3].prev_dose = None
    /\ ~lastOp.entries[3].touched
    /\ SavedRow(3).dose_mg = 1500

\* ------------------------------------------- claims: recording the cycles

\* The ledger rows of patient pid for drug in the latest cycle before cycle_no
\* that has one.
LastEntries(pid, drug, cycle_no) ==
    LET mine == {j \in DOMAIN chemo_courses :
                   /\ chemo_courses[j].patient_id = pid
                   /\ chemo_courses[j].drug_name = drug
                   /\ chemo_courses[j].cycle_no < cycle_no}
    IN  {j \in mine : \A k \in mine : chemo_courses[k].cycle_no <= chemo_courses[j].cycle_no}

\* C17 as stated: when a cycle is entered, a drug with an entry in the
\* immediately preceding cycle is offered that entry's dose as its default
\* dose; any other drug is offered, as the default factor, the factor recorded
\* with its entry in the latest earlier cycle.
C17_Original ==
    [][lastOp'.op = "save_cycle" =>
         \A i \in DOMAIN lastOp'.entries :
            LET e == lastOp'.entries[i]
            IN  IF e.prev_dose # None THEN e.default = e.prev_dose
                ELSE \A j \in LastEntries(lastOp'.pid, e.drug, lastOp'.cycle_no) :
                        slider_default = chemo_courses[j].dose_factor]_vars

\* The cycle numbers patient lastOp.pid had in the ledger before the last save.
PriorCycles ==
    {chemo_courses[j].cycle_no : j \in
       {k \in 1..(lastOp.first - 1) : chemo_courses[k].patient_id = lastOp.pid}}

\* C19 as stated: the cycle form of every patient suggests the largest cycle
\* number of the patient plus one (1 without cycles), and a cycle is recorded
\* under the number entered whether it is lower than, equal to or beyond the
\* existing ones.
C19_Original ==
    /\ \A pid \in PatientIds : Selectable(pid) => cycle_input_shown(pid)
    /\ Saved =>
         /\ lastOp.suggested = IF PriorCycles = {} THEN 1
                               ELSE (CHOOSE c \in PriorCycles : \A d \in PriorCycles : d <= c) + 1
         /\ \A i \in DOMAIN lastOp.entries : SavedRow(i).cycle_no = lastOp.cycle_no

\* The cycle form was submitted under a regimen name that has no template.
SubmittedWithoutTemplate ==
    /\ lastOp.op \in {"save_cycle", "save_cycle_rejected"}
    /\ lastOp.regimen_name # ""
    /\ lastOp.regimen_name \notin TemplateNames

C20_Frame ==
    [][/\ lastOp'.op = "save_cycle" =>
            /\ Len(chemo_courses') = Len(chemo_courses) + Len(lastOp'.entries)
            /\ SubSeq(chemo_courses', 1, Len(chemo_courses)) = chemo_courses
            /\ \A i \in DOMAIN lastOp'.entries :
                  LET row == chemo_courses'[Len(chemo_courses) + i]
                  IN  /\ row.patient_id = lastOp'.pid
                      /\ row.cycle_no = lastOp'.cycle_no
                      /\ row.regimen_name = lastOp'.regimen_name
                      /\ row.drug_name = lastOp'.entries[i].drug
            /\ patients' = patients
            /\ UNCHANGED <<hospitals, wards, seq_hospitals, seq_wards,
                           rounds_logs, transfers, chemo_templates>>
       /\ lastOp'.op = "save_cycle_rejected" => UNCHANGED store
       /\ lastOp'.op = "save_plan" =>
            /\ chemo_courses' = chemo_courses
            /\ UNCHANGED <<hospitals, wards, seq_hospitals, seq_wards,
                           rounds_logs, transfers, chemo_templates>>]_vars

\* A patient planned for CHOP whose ledger holds a cycle recorded as "ICE-GD"
\* and, just recorded, another cycle under "CHOP".
C20_Witness ==
    /\ Saved
    /\ lastOp.regimen_name = "CHOP"
    /\ patients[lastOp.pid].chemo_regimen = "CHOP"
    /\ \E j \in 1..(lastOp.first - 1) :
          /\ chemo_courses[j].patient_id = lastOp.pid
          /\ chemo_courses[j].regimen_name = "ICE-GD"
          /\ chemo_courses[j].cycle_no # lastOp.cycle_no
    /\ SavedRow(1).regimen_name = "CHOP"

\* ------------------------------------------------ claims: the patient rows

\* C21: in every reachable state the bsa stored in a patient row is calc_bsa of
\* the weight_kg and height_cm stored in that row, and NULL when either of
\* them is NULL.
C21_BsaOfStoredBody ==
    \A p \in PatientIds :
        patients[p].bsa =
            IF patients[p].weight_kg = None \/ patients[p].height_cm = None
            THEN None
            ELSE calc_bsa(patients[p].weight_kg, patients[p].height_cm)

\* A readmission row that took over 55 kg, 160 cm and their BSA, after the
\* body of the first admission had been saved more than once.
C21_Witness ==
    /\ lastOp.op = "discharge_readmit"
    /\ Len(patients) = 2
    /\ patients[2].weight_kg = 55
    /\ patients[2].height_cm = 160
    /\ patients[2].bsa = 938083
    /\ patients[1].bsa = 938083

\* ------------------------------------------------- claims: the rounds log

\* C22 as stated: a rounds_logs row, once written, is never deleted and its
\* author and note never change.
C22_Original ==
    [][\A i \in DOMAIN rounds_logs :
          /\ i \in DOMAIN rounds_logs'
          /\ rounds_logs'[i].author = rounds_logs[i].author
          /\ rounds_logs'[i].note = rounds_logs[i].note]_vars

\* C23: a rounds note with text appends one rounds_logs row for the patient and
\* stamps the patient's last_rounded_at with the current time, changing nothing
\* else; a note without text writes nothing.
C23_RoundsNote ==
    [][lastOp'.op = "rounds_note" =>
         IF Strip(lastOp'.note) # ""
         THEN /\ lastOp'.msg = "success"
              /\ Len(rounds_logs') = Len(rounds_logs) + 1
              /\ SubSeq(rounds_logs', 1, Len(rounds_logs)) = rounds_logs
              /\ rounds_logs'[Len(rounds_logs')].patient_id = lastOp'.pid
              /\ rounds_logs'[Len(rounds_logs')].note = lastOp'.note
              /\ patients'[lastOp'.pid].last_rounded_at = IsoFormat(today) \o " 09:00:00"
              /\ patients' = [patients EXCEPT
                    ![lastOp'.pid].last_rounded_at = patients'[lastOp'.pid].last_rounded_at]
         ELSE /\ lastOp'.msg = "error"
              /\ rounds_logs' = rounds_logs
              /\ patients' = patients]_vars

\* The second note of a patient, written a day after the first: the stamp moves
\* to the second day.
C23_Witness ==
    /\ lastOp.op = "rounds_note" /\ lastOp.msg = "success"
    /\ Len(rounds_logs) = 2
    /\ rounds_logs[1].patient_id = lastOp.pid
    /\ rounds_logs[2].patient_id = lastOp.pid
    /\ rounds_logs[1].created_at = IsoFormat(Day0) \o " 09:00:00"
    /\ patients[lastOp.pid].last_rounded_at = IsoFormat(Day0 + 1) \o " 09:00:00"

\* A rounds note of patient p was written today.
NotedToday(p) ==
    \E i \in DOMAIN rounds_logs :
        /\ rounds_logs[i].patient_id = p
        /\ rounds_logs[i].created_at = IsoFormat(today) \o " 09:00:00"

\* C30: the missed-rounds list holds exactly the Admitted patients whose
\* last_rounded_at is absent or of another day than today; these are exactly
\* the Admitted patients without a rounds note written today, and no Planned,
\* Discharged or Cancelled patient is listed.
C30_MissedRounds ==
    \A p \in PatientIds :
        /\ p \in missed <=>
              /\ patients[p].status = "Admitted"
              /\ \/ patients[p].last_rounded_at = NoneS
                 \/ patients[p].last_rounded_at # IsoFormat(today) \o " 09:00:00"
        /\ p \in missed <=> (patients[p].status = "Admitted" /\ ~NotedToday(p))
        /\ patients[p].status # "Admitted" => p \notin missed

\* On the second day: one Admitted patient with yesterday's note only, listed,
\* beside one with a note of today, not listed.
C30_Witness ==
    /\ today = Day0 + 1
    /\ Len(patients) = 2
    /\ patients[1].status = "Admitted" /\ patients[2].status = "Admitted"
    /\ patients[1].last_rounded_at = IsoFormat(Day0) \o " 09:00:00"
    /\ NotedToday(2)
    /\ missed = {1}

\* ---------------------------------------------------- claims: the places

\* C24: a transfer appends one transfers row for the patient, from the
\* hospital and ward the patient row held just before, to the hospital and
\* ward chosen, with the reason entered; the patient row then holds the
\* to-location and none of its other fields has changed.
C24_Transfer ==
    [][lastOp'.op = "transfer" =>
         LET pid == lastOp'.pid
             row == transfers'[Len(transfers')]
             hid == (CHOOSE h \in hospitals : h.name = lastOp'.new_hosp).id
             wid == IF lastOp'.new_ward = "" THEN None
                    ELSE (CHOOSE w \in wards : w.hospital_id = hid
                                               /\ w.name = lastOp'.new_ward).id
         IN  /\ Len(transfers') = Len(transfers) + 1
             /\ SubSeq(transfers', 1, Len(transfers)) = transfers
             /\ row.patient_id = pid
             /\ row.from_hospital_id = patients[pid].hospital_id
             /\ row.from_ward_id = patients[pid].ward_id
             /\ row.to_hospital_id = hid
             /\ row.to_ward_id = wid
             /\ row.reason = IF lastOp'.reason = "" THEN NoneS ELSE lastOp'.reason
             /\ patients' = [patients EXCEPT ![pid].hospital_id = hid,
                                             ![pid].ward_id = wid]]_vars

\* A patient moved, with a reason, from a ward of one hospital to a ward of
\* another.
C24_Witness ==
    /\ lastOp.op = "transfer"
    /\ Len(transfers) = 1
    /\ transfers[1].from_ward_id # None
    /\ transfers[1].to_ward_id # None
    /\ transfers[1].from_hospital_id # transfers[1].to_hospital_id
    /\ transfers[1].reason = "closer to home"
    /\ patients[lastOp.pid].ward_id = transfers[1].to_ward_id

\* C29: in every reachable state each patient row's hospital_id is the id of
\* a hospital row, and its ward_id, when not NULL, is the id of a ward row of
\* that same hospital.
C29_References ==
    \A p \in PatientIds :
        /\ \E h \in hospitals : h.id = patients[p].hospital_id
        /\ patients[p].ward_id # None =>
              \E w \in wards : /\ w.id = patients[p].ward_id
                               /\ w.hospital_id = patients[p].hospital_id

\* The delete of a ward a discharged patient row still points to was refused,
\* while the other hospital, left by a transfer, is gone with its ward.
C29_Witness ==
    /\ lastOp.op = "delete_ward" /\ lastOp.msg = "error"
    /\ \E p \in PatientIds :
          /\ patients[p].status = "Discharged"
          /\ patients[p].ward_id = lastOp.id
    /\ Len(transfers) = 1
    /\ ~\E h \in hospitals : h.id = transfers[1].from_hospital_id

\* ------------------------------------------------- claims: the add form

\* C25: a submit of the add-patient form whose name is empty or only
\* whitespace, or whose hospital is not chosen, shows an error, inserts no
\* patient row and changes no other table.
C25_AddRejected ==
    [][(/\ lastOp'.op = "add_patient"
        /\ \/ Strip(lastOp'.patient_name) = ""
           \/ lastOp'.hosp = "")
       => /\ lastOp'.msg = "error"
          /\ patients' = patients
          /\ store' = store]_vars

\* A whitespace-only name was submitted with a hospital chosen that had been
\* added in the settings.
C25_Witness ==
    /\ lastOp.op = "add_patient"
    /\ lastOp.msg = "error"
    /\ lastOp.patient_name = " "
    /\ lastOp.hosp = "Hospital 9"
    /\ Len(patients) = 0

\* ------------------------------------------------- claims: the unique names

\* No two hospital rows share a name, no two ward rows of one hospital share
\* a name, no two template rows share a name, and the INSERT OR IGNORE of the
\* built-in templates that init_db runs leaves the table as it is.
UniqueNames ==
    /\ \A h1, h2 \in hospitals : h1.name = h2.name => h1 = h2
    /\ \A w1, w2 \in wards :
          (w1.hospital_id = w2.hospital_id /\ w1.name = w2.name) => w1 = w2
    /\ \A t1, t2 \in chemo_templates : t1.name = t2.name => t1 = t2
    /\ seed_chemo_templates(chemo_templates) = chemo_templates

\* C26: hospital names, (hospital, ward name) pairs and template names are
\* unique in every reachable state, and a submit of a hospital name or of a
\* ward name of a hospital that is already present only warns: the store is
\* left as it was.
C26_UniqueNames ==
    /\ []UniqueNames
    /\ [][/\ (/\ lastOp'.op = "add_hospital"
              /\ Strip(lastOp'.new_hosp) \in HospitalNames)
             => (lastOp'.msg = "warning" /\ store' = store)
          /\ (/\ lastOp'.op = "add_ward"
              /\ lastOp'.hosp_choice # ""
              /\ Strip(lastOp'.ward_name) # ""
              /\ Strip(lastOp'.ward_name) \in WardNames(hosp_ids(lastOp'.hosp_choice)))
             => (lastOp'.msg = "warning" /\ store' = store)]_vars

\* A ward name present in one hospital was submitted again for that hospital,
\* while another hospital has a ward of the same name.
C26_Witness ==
    /\ lastOp.op = "add_ward"
    /\ lastOp.msg = "warning"
    /\ \E w1, w2 \in wards : /\ w1.name = w2.name
                             /\ w1.hospital_id # w2.hospital_id
                             /\ w1.hospital_id = hosp_ids(lastOp.hosp_choice)

\* ------------------------------------------------- claims: the template doses

\* The payload init_db seeds for a regimen name (none for another name).
SeededPayload(name) ==
    IF \E t \in templates : t.name = name
    THEN (CHOOSE t \in templates : t.name = name).payload
    ELSE << >>

\* In this state the rows computed for every regimen, weight and height are
\* those of the seeded payload, in its order.
DosesAsSeeded ==
    \A r \in PureRegimens, w \in PureWeights, h \in PureHeights :
        compute_doses_for_template(r, w, h) = template_rows(SeededPayload(r), w, h)

Terminal(p) == patients[p].status \in {"Discharged", "Cancelled"}

\* The rows of a table that belong to patient p, in table order.
RowsOf(table, p) == SelectSeq(table, LAMBDA r : r.patient_id = p)

\* C28: once a patient row is Discharged or Cancelled, no operation changes
\* the row, nor the ledger, rounds or transfer rows of that patient.
C28_Terminal ==
    [][\A p \in PatientIds :
          Terminal(p) =>
             /\ p \in DOMAIN patients'
             /\ patients'[p] = patients[p]
             /\ RowsOf(chemo_courses', p) = RowsOf(chemo_courses, p)
             /\ RowsOf(rounds_logs', p) = RowsOf(rounds_logs, p)
             /\ RowsOf(transfers', p) = RowsOf(transfers, p)]_vars

\* Patient 1 was discharged with a cycle, a rounds note and a transfer on
\* record, and the bed of the row opened for the readmission was then edited.
C28_Witness ==
    /\ lastOp.op = "save_bed"
    /\ lastOp.pid = 2
    /\ Len(patients) = 2
    /\ patients[1].status = "Discharged"
    /\ RowsOf(chemo_courses, 1) # << >>
    /\ RowsOf(rounds_logs, 1) # << >>
    /\ RowsOf(transfers, 1) # << >>

====
